---- MODULE Spec2Model ----
(***************************************************************************)
(* CDR Link Charter: the graph store of the CDR visualizer (main.py,       *)
(* src/event_handlers.py, src/canvas_helpers.py) and the aggregation of    *)
(* the link chart application (linkchart.py).                              *)
(*                                                                         *)
(* Phone numbers are strings without "_", so the canvas tag                *)
(* "connection_label_<p1>_<p2>" splits back into the two numbers it was    *)
(* built from; a click on a drawn connection therefore selects the sorted  *)
(* pair of that connection.                                                *)
(***************************************************************************)
EXTENDS Integers, Sequences, FiniteSets, TLC

\* ------------------------------------------------------------------ bounds
MaxRows == 1        \* rows in one imported CSV file
MaxRecords == 2     \* records the store holds at a time, per direction
MaxCoord == 500     \* largest logical x a drag may reach
MaxEvents == 8      \* events handled in one run
MaxCalls == 3       \* rows of one file loaded by linkchart.py
MaxImportRows == 2  \* rows in one imported CSV file, odd rows included
MaxJobs == 2        \* filter jobs submitted and not yet taken from the queue
MinZoom == 90       \* the lowest zoom, in percent, the wheel is followed to
MinZoomFactor == 990   \* the zoom factors, in 1/1000, on_scroll is followed to
MaxZoomFactor == 1100
MaxPan == 250          \* the largest pan offset, in 1/1000, a drag is followed to
MaxPersons == 2        \* Person objects created in one run
MaxPolls == 3          \* _check_filter_results timers scheduled at a time
NumColors == 2         \* len(CARD_COLORS) the color index is cycled through
MaxRefreshTimers == 1  \* refresh callbacks scheduled at a time

\* --------------------------------------------------------- input alphabets
PhoneIds == <<"1", "2", "3">>          \* ascending in Python string order
Phones == {PhoneIds[i] : i \in 1..Len(PhoneIds)}
None == "None"
NoRefresh == [scheduled |-> None, invoked |-> "never"]
NoConnection == <<>>                   \* selected_connection = None

Today == "2024-01-09"                  \* datetime.now().strftime('%Y-%m-%d')
Dates == {"2024-01-05"}
NoteTexts == {"x"}                     \* non-empty dialog results
AddPhones == {"1"}                     \* numbers entered in the Add Phone dialog
DragDeltas == {<<300, 0>>}             \* canvas deltas of one drag event

\* strptime("%H:%M:%S") of the time strings used in rows: seconds of day
TimeSeconds == [t \in {"00:00:00", "00:00:10", "00:00:30"} |->
                  CASE t = "00:00:00" -> 0
                    [] t = "00:00:10" -> 10
                    [] t = "00:00:30" -> 30]

\* ISO dates ordered as Python orders the strings
DateOrd == [d \in Dates \cup {Today} |->
              CASE d = "2024-01-05" -> 1
                [] d = "2024-01-09" -> 2]

\* date.split('-')
DateParts == [d \in Dates \cup {Today} |->
              CASE d = "2024-01-05" -> <<"2024", "01", "05">>
                [] d = "2024-01-09" -> <<"2024", "01", "09">>]

Row(t, dir, f, d, s, e) ==
  [target_number |-> t, direction |-> dir, from_to_number |-> f,
   date |-> d, start_time |-> s, end_time |-> e]

\* rows of a CSV file: 10 s calls between "2" and "3" and between "3" and
\* "1", and a call of "2" to itself
RowSet ==
  {Row("2", "Outbound", "3", "2024-01-05", "00:00:00", "00:00:10"),
   Row("3", "Outbound", "1", "2024-01-05", "00:00:00", "00:00:10"),
   Row("2", "Outbound", "2", "2024-01-05", "00:00:00", "00:00:10")}

Files == UNION {[1..n -> RowSet] : n \in 1..MaxRows}

\* rows that are not plain calls: a call that ends before it starts, a row
\* with an empty End field and a row with an unparsable Start time
OddRows ==
  {Row("3", "Inbound", "2", "2024-01-05", "00:00:30", "00:00:00"),
   Row("1", "Outbound", "3", "2024-01-05", "00:00:00", ""),
   Row("1", "Outbound", "2", "2024-01-05", "bad", "00:00:10")}

ImportFiles ==
  UNION {[1..n -> RowSet \cup OddRows] : n \in 1..MaxImportRows}

\* ------------------------------------------------------------------- state
VARIABLES
  phone_nodes,          \* {phone_number: PhoneNode}: phone |-> [x, y]
  node_widgets,         \* phones that have a widget on the canvas
  connection_lines,     \* {(phone1, phone2): drawn items}: pair |-> label
  call_data,            \* {phone1: {phone2: [call_records]}}, see below
  selected_phone,       \* EventHandlers.selected_phone
  selected_connection,  \* EventHandlers.selected_connection
  dragging,             \* EventHandlers.dragging
  connecting,           \* EventHandlers.connecting
  connection_start,     \* EventHandlers.connection_start
  temp_line,            \* EventHandlers.temp_line (TRUE: a canvas line)
  last_zoom,            \* EventHandlers.last_zoom, in percent
  events,               \* number of events handled so far (bounds the run)
  last_event,           \* the handler that ran last: [op, key, initial, result]
  lc_call_data,         \* linkchart.py: self.call_data, the loaded rows
  futures,              \* linkchart.py: the submitted chunks of group keys
  pending,              \* the futures as_completed has not yielded yet
  call_stats,           \* linkchart.py: call_stats of process_call_data_parallel
  graph,                \* linkchart.py: self.graph, [nodes, edges]
  lc_pc,                \* where process_call_data_parallel stands
  schema,               \* the last normalize_csv_format: columns and outcome
  applied,              \* the last _worker_apply_filters call: input, output
  current_filters,      \* linkchart.py: self.current_filters
  jobs,                 \* the filter jobs the thread pool has not finished
  result_queue,         \* linkchart.py: self.result_queue
  filtered_graph,       \* linkchart.py: self.filtered_graph
  filtered_from,        \* the job that computed filtered_graph
  persons,              \* linkchart.py: self.persons, id |-> phone_numbers
  widget_at,            \* phone |-> canvas position of its widget, in 1/100 px
  placed,               \* the phones a drag has positioned
  zoom_var,             \* the zoom slider's variable, in percent
  zoom_debounce_timer,  \* a _perform_zoom_update call is scheduled
  lc_pos,                  \* linkchart.py: self.pos, node |-> <<x, y>> in 1/1000
  zoom_factor,          \* linkchart.py: self.zoom_factor, in 1/1000
  pan_offset,           \* linkchart.py: self.pan_offset, in 1/1000
  drag_start_offset,    \* pan_offset when the pan drag began, None without one
  person_manager_window,\* the person dialog is open
  dialog_phones,        \* PersonManagementDialog: self.phones
  current_person_id,    \* PersonManagementDialog: None until a selection
  available_listbox,    \* the phones listed as available
  assigned_listbox,     \* the phones listed as assigned
  persons_made,         \* how many Person objects were ever created
  poll_timers,          \* the _check_filter_results calls root.after holds
  progress_bar,         \* the progress bar runs: start() without a stop()
  node_color,           \* phone |-> PhoneNode.color, 0 until it is cycled
  widget_color,         \* phone |-> the color index its widget was drawn in
  _pending_color_refresh, \* event_handlers.py: self._pending_color_refresh
  refresh_timers,       \* the refresh callbacks root.after holds, each as
                        \* the phone that was pending when it was scheduled
  last_refresh          \* the last refresh callback: the phone it was
                        \* scheduled for and the argument it passed

app == <<phone_nodes, node_widgets, connection_lines, call_data,
         selected_phone, selected_connection, dragging, connecting,
         connection_start, temp_line, last_zoom>>

linkchart == <<lc_call_data, futures, pending, call_stats, graph, lc_pc>>

filtering == <<schema, applied, current_filters, jobs, result_queue,
               filtered_graph, filtered_from, persons>>

layout == <<widget_at, placed, zoom_var, zoom_debounce_timer>>

view == <<lc_pos, zoom_factor, pan_offset, drag_start_offset>>

dialog == <<person_manager_window, dialog_phones, current_person_id,
            available_listbox, assigned_listbox, persons_made>>

polling == <<poll_timers, progress_bar>>

recolor == <<node_color, widget_color, _pending_color_refresh, refresh_timers,
             last_refresh>>

vars == <<app, events, last_event, linkchart, filtering, layout, view, dialog,
          polling, recolor>>

\* op: the handler; key: the connection it acted on; initial: the note the
\* dialog was opened with; result: what the dialog returned
Event(op, key, initial, result) ==
  [op |-> op, key |-> key, initial |-> initial, result |-> result]

Logged(op, key, initial, result) ==
  last_event' = Event(op, key, initial, result)

YesNo(b) == IF b THEN "yes" ELSE "no"

(***************************************************************************)
(* call_data is a Python dict of dicts.  Its value is modelled as          *)
(*   map   : outer key |-> (inner key |-> list of records)                 *)
(*   plain : the outer keys whose inner dict is a plain {} (assigned by    *)
(*           complete_connection / edit_connection_label); the others are  *)
(*           defaultdict(list) made by the outer defaultdict               *)
(*   keys  : the outer keys in insertion order (dict iteration order)      *)
(***************************************************************************)
EmptyDict == [map |-> <<>>, plain |-> {}, keys |-> <<>>]

Has(d, p) == p \in DOMAIN d.map
HasIn(d, p, q) == Has(d, p) /\ q \in DOMAIN d.map[p]

SeqWithout(s, x) == SelectSeq(s, LAMBDA e : e # x)

\* d[p] on the outer defaultdict: a missing key gets a defaultdict(list)
Touch(d, p) ==
  IF Has(d, p) THEN d
  ELSE [map |-> [k \in DOMAIN d.map \cup {p} |->
                    IF k = p THEN <<>> ELSE d.map[k]],
        plain |-> d.plain,
        keys |-> Append(d.keys, p)]

\* d[p] = {}  (only executed when p is not a key)
AssignPlain(d, p) ==
  [map |-> [k \in DOMAIN d.map \cup {p} |-> IF k = p THEN <<>> ELSE d.map[k]],
   plain |-> d.plain \cup {p},
   keys |-> IF Has(d, p) THEN d.keys ELSE Append(d.keys, p)]

\* d[p][q] = recs, p being a key
SetIn(d, p, q, recs) ==
  [d EXCEPT !.map[p] = [k \in DOMAIN d.map[p] \cup {q} |->
                           IF k = q THEN recs ELSE d.map[p][k]]]

\* d[p][q] = []: the list is emptied, the key stays
ClearIn(d, p, q) == SetIn(d, p, q, <<>>)

\* del d[p][q]
DelIn(d, p, q) ==
  [d EXCEPT !.map[p] = [k \in DOMAIN d.map[p] \ {q} |-> d.map[p][k]]]

\* del d[p]
DelOuter(d, p) ==
  [map |-> [k \in DOMAIN d.map \ {p} |-> d.map[k]],
   plain |-> d.plain \ {p},
   keys |-> SeqWithout(d.keys, p)]

\* d[p][q] evaluated for reading or appending: the outer defaultdict makes a
\* missing p, an inner defaultdict makes a missing q, a plain inner dict
\* raises KeyError.  Result: [err, d] with d[p][q] present when err = FALSE.
Lookup(d, p, q) ==
  LET d1 == Touch(d, p) IN
  IF q \in DOMAIN d1.map[p] THEN [err |-> FALSE, d |-> d1]
  ELSE IF p \in d1.plain THEN [err |-> TRUE, d |-> d1]
  ELSE [err |-> FALSE, d |-> SetIn(d1, p, q, <<>>)]

\* d[p][q].append(r)
AppendRec(d, p, q, r) ==
  LET l == Lookup(d, p, q) IN
  IF l.err THEN l
  ELSE [err |-> FALSE, d |-> SetIn(l.d, p, q, Append(l.d.map[p][q], r))]

Records(d, p, q) == IF HasIn(d, p, q) THEN d.map[p][q] ELSE <<>>

\* number of records held, counting both directions
RECURSIVE SumLen(_, _)
SumLen(f, S) ==
  IF S = {} THEN 0
  ELSE LET k == CHOOSE k \in S : TRUE IN Len(f[k]) + SumLen(f, S \ {k})

RECURSIVE TotalIn(_, _)
TotalIn(m, S) ==
  IF S = {} THEN 0
  ELSE LET k == CHOOSE k \in S : TRUE
       IN SumLen(m[k], DOMAIN m[k]) + TotalIn(m, S \ {k})

TotalRecords(d) == TotalIn(d.map, DOMAIN d.map)

WithinBounds(d) == TotalRecords(d) <= 2 * MaxRecords

\* ------------------------------------------------- src/canvas_helpers.py
Ord(p) == CHOOSE i \in 1..Len(PhoneIds) : PhoneIds[i] = p

\* tuple(sorted([phone1, phone2]))
SortedPair(p, q) == IF Ord(p) <= Ord(q) THEN <<p, q>> ELSE <<q, p>>

RECURSIVE SumDuration(_)
SumDuration(recs) ==
  IF recs = <<>> THEN 0 ELSE Head(recs).duration + SumDuration(Tail(recs))

MinDate(recs) ==
  CHOOSE d \in {recs[i].date : i \in 1..Len(recs)} :
    \A j \in 1..Len(recs) : DateOrd[d] <= DateOrd[recs[j].date]

MaxDate(recs) ==
  CHOOSE d \in {recs[i].date : i \in 1..Len(recs)} :
    \A j \in 1..Len(recs) : DateOrd[d] >= DateOrd[recs[j].date]

NoStats == [total_calls |-> 0]

\* avg_duration = total_duration / total_calls is kept as the fraction
\* <<total_duration, total_calls>>
_calculate_connection_stats(call_records) ==
  IF call_records = <<>> THEN NoStats
  ELSE [total_calls |-> Len(call_records),
        avg_duration |-> <<SumDuration(call_records), Len(call_records)>>,
        date_range |-> <<MinDate(call_records), MaxDate(call_records)>>]

NoLabel == [total_calls |-> 0]

\* f"{total_calls} calls\nAvg: {avg_mins}m {avg_secs}s\n{date_str}" as the
\* record of its interpolated values
_format_connection_label(stats) ==
  IF stats = NoStats THEN NoLabel
  ELSE
    LET num == stats.avg_duration[1]
        den == stats.avg_duration[2]
        avg_mins == num \div (60 * den)                       \* int(avg // 60)
        avg_secs == (num \div den) - 60 * (num \div (60 * den)) \* int(avg % 60)
        min_date == stats.date_range[1]
        max_date == stats.date_range[2]
        min_parts == DateParts[min_date]
        max_parts == DateParts[max_date]
        date_str ==
          IF min_date = max_date THEN <<min_date>>
          ELSE IF min_parts[1] = max_parts[1]
               THEN <<min_parts[2], "/", min_parts[3], "-",
                      max_parts[2], "/", max_parts[3], "/", max_parts[1]>>
               ELSE <<min_date, " to ", max_date>>
    IN [total_calls |-> stats.total_calls,
        avg_mins |-> avg_mins, avg_secs |-> avg_secs,
        date_str |-> date_str]

\* the (phone1, phone2) for which update_connections draws the pair {p, q}:
\* the first outer key, in dict order, whose list for the other is non-empty
DrawnFrom(d, p, q) ==
  LET cand == {pr \in {<<p, q>>, <<q, p>>} : Records(d, pr[1], pr[2]) # <<>>}
      pos(a) == CHOOSE i \in 1..Len(d.keys) : d.keys[i] = a
  IN CHOOSE pr \in cand : \A o \in cand : pos(pr[1]) <= pos(o[1])

\* the connection_lines that update_connections leaves: every pair of
\* distinct phones with a non-empty list, both in phone_nodes
UpdateConnections(d, nodes) ==
  LET keys == {SortedPair(p, q) : p \in DOMAIN d.map, q \in Phones} 
      drawn == {k \in keys :
                  /\ k[1] # k[2]
                  /\ \/ Records(d, k[1], k[2]) # <<>>
                     \/ Records(d, k[2], k[1]) # <<>>
                  /\ k[1] \in DOMAIN nodes /\ k[2] \in DOMAIN nodes}
  IN [k \in drawn |->
        LET pr == DrawnFrom(d, k[1], k[2])
        IN _format_connection_label(
             _calculate_connection_stats(d.map[pr[1]][pr[2]]))]

\* ------------------------------------------------------------- main.py
cols == 3
col_width == 300
row_height == 150
start_x == 200
start_y == 120

\* PhoneNode(phone_number): x = 0, y = 0
PhoneNode == [x |-> 0, y |-> 0]

GridX(index) == start_x + (index % cols) * col_width
GridY(index) == start_y + (index \div cols) * row_height

WithNode(nodes, p, n) ==
  [k \in DOMAIN nodes \cup {p} |-> IF k = p THEN n ELSE nodes[k]]

\* one iteration of the row loop of import_cdr_csv on the loop state
\* s = [nodes, d, new, n, err]; err = TRUE: an exception left the loop
ImportRow(s, row) ==
  IF row.target_number = "" \/ row.from_to_number = "" \/ row.date = ""
     \/ row.start_time = "" \/ row.end_time = ""
  THEN s                                                  \* continue
  ELSE IF \/ row.date \notin DOMAIN DateOrd
          \/ row.start_time \notin DOMAIN TimeSeconds
          \/ row.end_time \notin DOMAIN TimeSeconds
  THEN s                                                  \* ValueError
  ELSE
    LET t == row.target_number
        f == row.from_to_number
        duration == TimeSeconds[row.end_time] - TimeSeconds[row.start_time]
        nodes1 == IF t \in DOMAIN s.nodes THEN s.nodes
                  ELSE WithNode(s.nodes, t, PhoneNode)
        new1 == IF t \in DOMAIN s.nodes THEN s.new ELSE s.new \cup {t}
        nodes2 == IF f \in DOMAIN nodes1 THEN nodes1
                  ELSE WithNode(nodes1, f, PhoneNode)
        new2 == IF f \in DOMAIN nodes1 THEN new1 ELSE new1 \cup {f}
        call_record == [date |-> row.date, start_time |-> row.start_time,
                        end_time |-> row.end_time, duration |-> duration,
                        direction |-> row.direction]
        a1 == AppendRec(s.d, t, f, call_record)
        a2 == AppendRec(a1.d, f, t, call_record)
    IN IF a1.err
       THEN [s EXCEPT !.nodes = nodes2, !.new = new2, !.d = a1.d, !.err = TRUE]
       ELSE IF a2.err
       THEN [s EXCEPT !.nodes = nodes2, !.new = new2, !.d = a2.d, !.err = TRUE]
       ELSE [nodes |-> nodes2, new |-> new2, d |-> a2.d, n |-> s.n + 1,
             err |-> FALSE]

\* the row loop with `break` in place of `continue`: a skipped row ends it
RECURSIVE StopAtSkipped(_, _)
StopAtSkipped(s, rows) ==
  IF rows = <<>> \/ s.err THEN s
  ELSE LET s1 == ImportRow(s, Head(rows))
       IN IF s1 = s THEN s ELSE StopAtSkipped(s1, Tail(rows))

RECURSIVE ImportRows(_, _)
ImportRows(s, rows) ==
  IF rows = <<>> \/ s.err THEN s
  ELSE ImportRows(ImportRow(s, Head(rows)), Tail(rows))

Orders(S) ==
  {o \in [1..Cardinality(S) -> S] : \A i, j \in DOMAIN o : i # j => o[i] # o[j]}

\* a layout pass that lays every phone out on the grid again
_position_all_nodes(nodes, order) ==
  [p \in DOMAIN nodes |->
     [nodes[p] EXCEPT !.x = GridX(Ord(p) - 1), !.y = GridY(Ord(p) - 1)]]

\* _position_new_nodes, new_phones being iterated in the order `order`
_position_new_nodes(nodes, order) ==
  LET existing_count == Cardinality(DOMAIN nodes) - Len(order)
      idx(p) == existing_count + (CHOOSE i \in 1..Len(order) : order[i] = p) - 1
  IN [p \in DOMAIN nodes |->
        IF \E i \in 1..Len(order) : order[i] = p
        THEN [nodes[p] EXCEPT !.x = GridX(idx(p)), !.y = GridY(idx(p))]
        ELSE nodes[p]]

\* create_phone_widget for each phone of S: skipped while a drag is on
create_phone_widget(widgets, S) ==
  IF dragging THEN widgets ELSE widgets \cup S

import_cdr_csv(file) ==
  LET s == ImportRows([nodes |-> phone_nodes, d |-> call_data, new |-> {},
                       n |-> 0, err |-> FALSE], file)
  IN /\ WithinBounds(s.d)
     /\ call_data' = s.d
     /\ IF s.err
        THEN \* except Exception: nothing after the loop runs
             /\ phone_nodes' = s.nodes
             /\ UNCHANGED <<node_widgets, connection_lines>>
        ELSE \E order \in Orders(s.new) :
             /\ phone_nodes' = _position_new_nodes(s.nodes, order)
             /\ node_widgets' = create_phone_widget(node_widgets, s.new)
             /\ connection_lines' = UpdateConnections(s.d, phone_nodes')
     /\ last_event' =
          [op |-> "import_cdr_csv", key |-> file, initial |-> "",
           result |-> IF s.err THEN "error" ELSE "ok",
           \* the numbers of the "Import Complete" message
           records_processed |-> s.n,
           new_phones |-> Cardinality(s.new)]
     /\ UNCHANGED <<selected_phone, selected_connection, dragging,
                    connecting, connection_start, temp_line, last_zoom>>

add_phone(phone_number) ==
  /\ phone_number \notin DOMAIN phone_nodes
  /\ LET index == Cardinality(DOMAIN phone_nodes)
     IN phone_nodes' = WithNode(phone_nodes, phone_number,
                                [x |-> GridX(index), y |-> GridY(index)])
  /\ node_widgets' = create_phone_widget(node_widgets, {phone_number})
  /\ Logged("add_phone", <<>>, "", "ok")
  /\ UNCHANGED <<connection_lines, call_data, selected_phone,
                 selected_connection, dragging, connecting, connection_start,
                 temp_line, last_zoom>>

\* the key list of call_data[phone_number] once the outer defaultdict has
\* made the entry, as sorted connection keys
ConnectionsToRemove(d, phone_number) ==
  {SortedPair(phone_number, other) : other \in DOMAIN Touch(d, phone_number).map[phone_number]}

\* call_data after delete_phone: the phone's own entry and its entry in
\* every other phone's dict are removed
RemovePhone(d, phone_number) ==
  LET d1 == DelOuter(Touch(d, phone_number), phone_number)
  IN [d1 EXCEPT !.map = [k \in DOMAIN d1.map |->
         [q \in DOMAIN d1.map[k] \ {phone_number} |-> d1.map[k][q]]]]

delete_phone(result) ==
  /\ selected_phone # None => selected_phone \in DOMAIN phone_nodes
  /\ Logged("delete_phone",
            IF selected_phone = None THEN <<>> ELSE <<selected_phone>>, "",
            IF selected_phone = None THEN "none" ELSE YesNo(result))
  /\ IF selected_phone = None \/ ~result
     THEN UNCHANGED app                   \* "No Selection" or declined
     ELSE
       LET phone_number == selected_phone
           gone == ConnectionsToRemove(call_data, phone_number)
       IN /\ connection_lines' =
               [k \in DOMAIN connection_lines \ gone |-> connection_lines[k]]
          /\ node_widgets' = node_widgets \ {phone_number}
          /\ phone_nodes' =
               [k \in DOMAIN phone_nodes \ {phone_number} |-> phone_nodes[k]]
          /\ call_data' = RemovePhone(call_data, phone_number)
          /\ selected_phone' = None
          /\ UNCHANGED <<selected_connection, dragging, connecting,
                         connection_start, temp_line, last_zoom>>

\* ------------------------------------------------ src/event_handlers.py
\* the state cancel_connection leaves in <<connecting, connection_start,
\* temp_line>>: unhighlight_phone_for_connection reads
\* phone_nodes[connection_start] and raises KeyError when the phone is gone,
\* after temp_line was cleared and before connecting is reset
cancel_connection(nodes) ==
  /\ temp_line' = FALSE
  /\ IF connection_start # None /\ connection_start \notin DOMAIN nodes
     THEN UNCHANGED <<connecting, connection_start>>
     ELSE connecting' = FALSE /\ connection_start' = None

start_connection(phone_number) ==
  /\ connecting' = TRUE
  /\ connection_start' = phone_number
  /\ temp_line' = TRUE
  /\ UNCHANGED <<phone_nodes, node_widgets, connection_lines, call_data>>

ManualNote(text) ==
  [date |-> Today, start_time |-> "", end_time |-> "", duration |-> 0,
   direction |-> "Manual Note", note |-> text]

\* if p1 not in call_data: call_data[p1] = {}
\* if p2 not in call_data[p1]: call_data[p1][p2] = []
EnsureList(d, p1, p2) ==
  LET d1 == IF Has(d, p1) THEN d ELSE AssignPlain(d, p1)
  IN IF p2 \in DOMAIN d1.map[p1] THEN d1 ELSE SetIn(d1, p1, p2, <<>>)

AppendBoth(d, p1, p2, r) ==
  LET d1 == SetIn(d, p1, p2, Append(d.map[p1][p2], r))
  IN SetIn(d1, p2, p1, Append(d1.map[p2][p1], r))

\* result: None (cancelled), "" (OK on an empty entry) or the note text
complete_connection(phone_number, result) ==
  /\ connecting /\ connection_start # None
  /\ LET phone1 == connection_start
         phone2 == phone_number
     IN IF phone1 = phone2
        THEN /\ cancel_connection(phone_nodes)
             /\ UNCHANGED <<phone_nodes, node_widgets, connection_lines,
                            call_data>>
        ELSE
          LET d1 == EnsureList(EnsureList(call_data, phone1, phone2),
                               phone2, phone1)
              d2 == IF result # None /\ result # ""
                    THEN AppendBoth(d1, phone1, phone2, ManualNote(result))
                    ELSE d1
          IN /\ WithinBounds(d2)
             /\ call_data' = d2
             /\ connection_lines' = UpdateConnections(d2, phone_nodes)
             /\ cancel_connection(phone_nodes)
             /\ UNCHANGED <<phone_nodes, node_widgets>>

\* target: the phone whose widget is under the pointer, or None
on_right_click(target, result) ==
  /\ target = None \/ target \in node_widgets
  /\ IF target = None
     THEN /\ cancel_connection(phone_nodes)
          /\ UNCHANGED <<phone_nodes, node_widgets, connection_lines,
                         call_data>>
     ELSE IF ~connecting THEN start_connection(target)
     ELSE IF connection_start = target
     THEN /\ cancel_connection(phone_nodes)
          /\ UNCHANGED <<phone_nodes, node_widgets, connection_lines,
                         call_data>>
     ELSE complete_connection(target, result)
  /\ Logged("on_right_click", <<>>, "",
            IF target # None /\ connecting /\ connection_start # target
            THEN result ELSE "")
  /\ UNCHANGED <<selected_phone, selected_connection, dragging, last_zoom>>

on_escape_key ==
  /\ IF connecting THEN cancel_connection(phone_nodes)
     ELSE UNCHANGED <<connecting, connection_start, temp_line>>
  /\ Logged("on_escape_key", <<>>, "", "")
  /\ UNCHANGED <<phone_nodes, node_widgets, connection_lines, call_data,
                 selected_phone, selected_connection, dragging, last_zoom>>

\* phone: the phone whose widget is the topmost item under the pointer, or
\* None; key: the key of the drawn connection whose label or clickable line
\* is, or NoConnection; both unset: nothing is under the pointer
on_canvas_click(phone, key) ==
  /\ phone = None \/ key = NoConnection
  /\ phone = None \/ phone \in node_widgets
  /\ key = NoConnection \/ key \in DOMAIN connection_lines
  /\ selected_connection' = key
  /\ selected_phone' = phone
  /\ dragging' = (phone # None)
  /\ Logged("on_canvas_click", <<>>, "", "")
  /\ UNCHANGED <<phone_nodes, node_widgets, connection_lines, call_data,
                 connecting, connection_start, temp_line, last_zoom>>

\* delta: the pointer movement in canvas coordinates since the last event
on_canvas_drag(delta) ==
  /\ dragging /\ selected_phone # None
  /\ selected_phone \in DOMAIN phone_nodes
  /\ LET dx_world == (delta[1] * 100) \div last_zoom
         dy_world == (delta[2] * 100) \div last_zoom
         node == phone_nodes[selected_phone]
     IN /\ node.x + dx_world <= MaxCoord
        /\ phone_nodes' = [phone_nodes EXCEPT ![selected_phone] =
                             [node EXCEPT !.x = node.x + dx_world,
                                          !.y = node.y + dy_world]]
  /\ IF selected_phone \in node_widgets
     THEN connection_lines' = UpdateConnections(call_data, phone_nodes')
     ELSE UNCHANGED connection_lines              \* KeyError
  /\ Logged("on_canvas_drag", <<>>, "", "")
  /\ UNCHANGED <<node_widgets, call_data, selected_phone, selected_connection,
                 dragging, connecting, connection_start, temp_line, last_zoom>>

on_canvas_release ==
  /\ dragging' = FALSE
  /\ IF dragging /\ selected_phone # None /\ _pending_color_refresh # None
     THEN /\ refresh_timers' = Append(refresh_timers, _pending_color_refresh)
          /\ _pending_color_refresh' = None
     ELSE UNCHANGED <<_pending_color_refresh, refresh_timers>>
  /\ UNCHANGED <<node_color, widget_color, last_refresh>>
  /\ Logged("on_canvas_release", <<>>, "", "")
  /\ UNCHANGED <<phone_nodes, node_widgets, connection_lines, call_data,
                 selected_phone, selected_connection, connecting,
                 connection_start, temp_line, last_zoom>>

\* a filter that keeps nothing
DropAll(recs) == <<>>

\* [r for r in recs if r.get('direction') != 'Manual Note']
NotManual(recs) == SelectSeq(recs, LAMBDA r : r.direction # "Manual Note")

\* the body of edit_connection_label under `if dialog.result is not None`,
\* up to and including the appends: [err, d]
EditNote(d, phone1, phone2, result) ==
  LET rm == IF HasIn(d, phone1, phone2)
            THEN LET d1 == SetIn(d, phone1, phone2, NotManual(d.map[phone1][phone2]))
                     l == Lookup(d1, phone2, phone1)
                 IN IF l.err THEN l
                    ELSE [err |-> FALSE,
                          d |-> SetIn(l.d, phone2, phone1,
                                      NotManual(l.d.map[phone2][phone1]))]
            ELSE [err |-> FALSE, d |-> d]
  IN IF rm.err \/ result = "" THEN rm
     ELSE [err |-> FALSE,
           d |-> AppendBoth(EnsureList(EnsureList(rm.d, phone1, phone2),
                                       phone2, phone1),
                            phone1, phone2, ManualNote(result))]

\* the note the dialog opens with: the first Manual Note of
\* call_data[phone1][phone2], "" when there is none
CurrentNote(d, phone1, phone2) ==
  LET recs == Records(d, phone1, phone2)
      idx == {i \in 1..Len(recs) : recs[i].direction = "Manual Note"}
  IN IF idx = {} THEN ""
     ELSE recs[CHOOSE i \in idx : \A j \in idx : i <= j].note

\* edit_connection_label with selected_connection = sel
edit_connection_label(sel, result) ==
  /\ Logged("edit_connection_label", sel,
            IF sel = NoConnection THEN ""
            ELSE CurrentNote(call_data, sel[1], sel[2]),
            result)
  /\ IF sel = NoConnection
     THEN UNCHANGED <<call_data, connection_lines>>
          /\ selected_connection' = sel
     ELSE IF result = None
     THEN /\ selected_connection' = NoConnection
          /\ UNCHANGED <<call_data, connection_lines>>
     ELSE LET e == EditNote(call_data, sel[1], sel[2], result)
          IN /\ WithinBounds(e.d)
             /\ call_data' = e.d
             /\ IF e.err
                THEN /\ selected_connection' = sel
                     /\ UNCHANGED connection_lines
                ELSE /\ connection_lines' = UpdateConnections(e.d, phone_nodes)
                     /\ selected_connection' = NoConnection
  /\ UNCHANGED <<phone_nodes, node_widgets, selected_phone, dragging,
                 connecting, connection_start, temp_line, last_zoom>>

\* target: the key of the drawn connection whose label or clickable line is
\* the item closest to the pointer
on_double_click(target, result) ==
  /\ target \in DOMAIN connection_lines
  /\ edit_connection_label(target, result)

delete_connection(result) ==
  /\ Logged("delete_connection", selected_connection, "",
            IF selected_connection = NoConnection THEN "none"
            ELSE YesNo(result))
  /\ IF selected_connection = NoConnection \/ ~result
     THEN UNCHANGED app                   \* "No Selection" or declined
     ELSE
       LET phone1 == selected_connection[1]
           phone2 == selected_connection[2]
           d1 == IF HasIn(call_data, phone1, phone2)
                 THEN DelIn(call_data, phone1, phone2) ELSE call_data
           d2 == IF HasIn(d1, phone2, phone1)
                 THEN DelIn(d1, phone2, phone1) ELSE d1
           connection_key == SortedPair(phone1, phone2)
       IN /\ call_data' = d2
          /\ connection_lines' =
               [k \in DOMAIN connection_lines \ {connection_key} |->
                  connection_lines[k]]
          /\ selected_connection' = NoConnection
          /\ UNCHANGED <<phone_nodes, node_widgets, selected_phone, dragging,
                         connecting, connection_start, temp_line, last_zoom>>

on_delete_key(result) ==
  IF selected_connection # NoConnection THEN delete_connection(result)
  ELSE IF selected_phone # None THEN delete_phone(result)
  ELSE UNCHANGED app /\ Logged("on_delete_key", <<>>, "", "none")

\* --------------------------------------- main.py: positions on the canvas
\* zoom is held in percent and canvas coordinates in 1/100 px, so that
\* logical * zoom is a whole number
ZoomLevels == {90, 95, 100}

\* pointer movements of one drag event, in px
CanvasDeltas == {<<171, 171>>}

\* a widget drawn at the logical position whatever the zoom is
WidgetUnscaled(node, zoom) == [x |-> node.x * 100, y |-> node.y * 100]

\* create_phone_widget: x = phone_node.x * zoom, y = phone_node.y * zoom
WidgetAt(node, zoom) == [x |-> node.x * zoom, y |-> node.y * zoom]

\* import_cdr_csv with the canvas items it creates
canvas_import_cdr_csv(file) ==
  /\ import_cdr_csv(file)
  /\ widget_at' = [p \in node_widgets' |->
                     IF p \in node_widgets THEN widget_at[p]
                     ELSE WidgetAt(phone_nodes'[p], last_zoom)]
  /\ UNCHANGED <<placed, zoom_var, zoom_debounce_timer>>

canvas_click(phone) ==
  /\ on_canvas_click(phone, NoConnection)
  /\ UNCHANGED layout

\* on_canvas_drag with canvas.move(item, dx_canvas, dy_canvas)
canvas_drag(delta) ==
  /\ on_canvas_drag(delta)
  /\ widget_at' =
       IF selected_phone \in node_widgets
       THEN [widget_at EXCEPT ![selected_phone] =
               [x |-> @.x + delta[1] * 100, y |-> @.y + delta[2] * 100]]
       ELSE widget_at                                       \* KeyError
  /\ placed' = placed \cup {selected_phone}
  /\ UNCHANGED <<zoom_var, zoom_debounce_timer>>

canvas_release ==
  /\ on_canvas_release
  /\ UNCHANGED layout

\* on_zoom: canvas.scale("all", 0, 0, zoom / prev_zoom, zoom / prev_zoom)
on_zoom(zoom) ==
  /\ IF zoom = last_zoom                     \* abs(zoom - last_zoom) < 0.01
     THEN UNCHANGED <<last_zoom, widget_at, zoom_debounce_timer>>
     ELSE /\ widget_at' = [p \in DOMAIN widget_at |->
                             [x |-> (widget_at[p].x * zoom) \div last_zoom,
                              y |-> (widget_at[p].y * zoom) \div last_zoom]]
          /\ last_zoom' = zoom
          /\ zoom_debounce_timer' = TRUE
  /\ Logged("on_zoom", <<>>, "", "")
  /\ UNCHANGED <<phone_nodes, node_widgets, connection_lines, call_data,
                 selected_phone, selected_connection, dragging, connecting,
                 connection_start, temp_line, placed>>

\* the zoom slider is moved to value
zoom_slider(value) ==
  /\ zoom_var' = value
  /\ on_zoom(value)

\* on_mouse_wheel: a step of 0.05 within [0.5, 1.0]
on_mouse_wheel(up) ==
  LET new_zoom == IF up THEN (IF zoom_var + 5 < 100 THEN zoom_var + 5 ELSE 100)
                  ELSE (IF zoom_var - 5 > 50 THEN zoom_var - 5 ELSE 50)
  IN /\ new_zoom >= MinZoom
     /\ zoom_var' = new_zoom
     /\ on_zoom(new_zoom)

\* _perform_zoom_update, 50 ms after the last on_zoom
_perform_zoom_update ==
  /\ zoom_debounce_timer
  /\ connection_lines' = UpdateConnections(call_data, phone_nodes)
  /\ zoom_debounce_timer' = FALSE
  /\ UNCHANGED <<phone_nodes, node_widgets, call_data, selected_phone,
                 selected_connection, dragging, connecting, connection_start,
                 temp_line, last_zoom, last_event, widget_at, placed, zoom_var>>

\* refresh_phone_widget(phone_number): the old widget is deleted, then
\* create_phone_widget returns at once while a drag is on, raises KeyError for
\* a phone_number that is no key of phone_nodes, and else draws the widget at
\* the zoomed position in the color of the node; the connections are redrawn
\* unless the KeyError ended the call
refresh_phone_widget(phone_number, colors) ==
  LET removed == node_widgets \ {phone_number}
      created == ~dragging /\ phone_number \in DOMAIN phone_nodes
  IN /\ node_widgets' = IF created THEN removed \cup {phone_number} ELSE removed
     /\ widget_at' = [p \in node_widgets' |->
                        IF p = phone_number
                        THEN WidgetAt(phone_nodes[p], last_zoom)
                        ELSE widget_at[p]]
     /\ widget_color' = IF created
                        THEN [widget_color EXCEPT
                                ![phone_number] = colors[phone_number]]
                        ELSE widget_color
     /\ connection_lines' = IF dragging \/ created
                            THEN UpdateConnections(call_data, phone_nodes)
                            ELSE connection_lines

\* the 'c' key: the color index of the selected phone moves on; its widget is
\* refreshed at once, or marked as pending while a drag is on
on_color_cycle_key ==
  /\ Len(refresh_timers) < MaxRefreshTimers
  /\ Logged("on_color_cycle_key", <<>>, "", "")
  /\ IF selected_phone = None \/ selected_phone \notin DOMAIN phone_nodes
     THEN UNCHANGED <<node_color, widget_color, _pending_color_refresh,
                      node_widgets, widget_at, connection_lines>>
     ELSE /\ node_color' = [node_color EXCEPT
                              ![selected_phone] = (@ + 1) % NumColors]
          /\ IF ~dragging
             THEN /\ refresh_phone_widget(selected_phone, node_color')
                  /\ UNCHANGED _pending_color_refresh
             ELSE /\ _pending_color_refresh' = selected_phone
                  /\ UNCHANGED <<widget_color, node_widgets, widget_at,
                                 connection_lines>>
  /\ UNCHANGED <<phone_nodes, call_data, selected_phone, selected_connection,
                 dragging, connecting, connection_start, temp_line, last_zoom,
                 placed, zoom_var, zoom_debounce_timer, refresh_timers,
                 last_refresh>>

\* the callback on_canvas_release gave to root.after(50, ...):
\* lambda: self.app.refresh_phone_widget(self._pending_color_refresh), which
\* reads the attribute when it is called
refresh_callback ==
  /\ refresh_timers # <<>>
  /\ refresh_timers' = Tail(refresh_timers)
  /\ last_refresh' = [scheduled |-> Head(refresh_timers),
                      invoked |-> _pending_color_refresh]
  /\ refresh_phone_widget(_pending_color_refresh, node_color)
  /\ UNCHANGED <<phone_nodes, call_data, selected_phone, selected_connection,
                 dragging, connecting, connection_start, temp_line, last_zoom,
                 last_event, placed, zoom_var, zoom_debounce_timer,
                 node_color, _pending_color_refresh>>

\* ------------------------------------------------------- src/linkchart.py
\* a loaded row after normalize_csv_format: caller, receiver, timestamp
LcRow(c, r, ts) == [caller |-> c, receiver |-> r, timestamp |-> ts]

\* calls of "1" to "2", of "2" to "1" and of "2" to "3", on either date
LcRows ==
  {LcRow(k[1], k[2], ts) :
     k \in {<<"1", "2">>, <<"2", "1">>, <<"2", "3">>}, ts \in DOMAIN DateOrd}

LoadedFiles == UNION {[1..n -> LcRows] : n \in 1..MaxCalls}

\* mp.cpu_count() of the machines the program runs on
CpuCounts == {1, 2, 4}

\* the order of the group keys: (caller, receiver) compared as tuples
KeyLess(k, l) ==
  Ord(k[1]) < Ord(l[1]) \/ (k[1] = l[1] /\ Ord(k[2]) < Ord(l[2]))

RECURSIVE SortedKeys(_)
SortedKeys(S) ==
  IF S = {} THEN <<>>
  ELSE LET k == CHOOSE k \in S : \A l \in S \ {k} : KeyLess(k, l)
       IN <<k>> \o SortedKeys(S \ {k})

\* list(self.call_data.groupby(['caller', 'receiver']).groups.keys())
group_keys(rows) ==
  SortedKeys({<<rows[i].caller, rows[i].receiver>> : i \in 1..Len(rows)})

\* grouped.get_group(key)
get_group(rows, key) ==
  SelectSeq(rows, LAMBDA r : r.caller = key[1] /\ r.receiver = key[2])

\* max(1, len(grouped) // mp.cpu_count())
chunk_size(keys, cpu_count) ==
  IF Len(keys) \div cpu_count >= 1 THEN Len(keys) \div cpu_count ELSE 1

\* [group_keys[i:i+chunk_size] for i in range(0, len(group_keys), chunk_size)]
RECURSIVE Chunks(_, _)
Chunks(keys, size) ==
  IF keys = <<>> THEN <<>>
  ELSE IF Len(keys) <= size THEN <<keys>>
  ELSE <<SubSeq(keys, 1, size)>> \o Chunks(SubSeq(keys, size + 1, Len(keys)), size)

\* dates.min(), dates.max()
FirstCall(group) ==
  CHOOSE t \in {group[i].timestamp : i \in 1..Len(group)} :
    \A j \in 1..Len(group) : DateOrd[t] <= DateOrd[group[j].timestamp]

LastCall(group) ==
  CHOOSE t \in {group[i].timestamp : i \in 1..Len(group)} :
    \A j \in 1..Len(group) : DateOrd[t] >= DateOrd[group[j].timestamp]

\* result[key] = value
DictSet(result, key, value) ==
  [k \in DOMAIN result \cup {key} |-> IF k = key THEN value ELSE result[k]]

\* result.update(other)
DictUpdate(result, other) ==
  [k \in DOMAIN result \cup DOMAIN other |->
     IF k \in DOMAIN other THEN other[k] ELSE result[k]]

\* process_call_chunk: one entry per key of the chunk, stored under the
\* sorted pair
RECURSIVE process_call_chunk(_, _, _)
process_call_chunk(chunk_keys, rows, result) ==
  IF chunk_keys = <<>> THEN result
  ELSE
    LET key == Head(chunk_keys)
        group == get_group(rows, key)
        edge_key == SortedPair(key[1], key[2])
        stats == [count |-> Len(group),
                  first_call |-> FirstCall(group),
                  last_call |-> LastCall(group)]
    IN process_call_chunk(Tail(chunk_keys), rows,
                          DictSet(result, edge_key, stats))

\* load_csv_data up to the submission of the chunks to the thread pool
submit_chunks(rows, cpu_count) ==
  /\ lc_pc = "idle"
  /\ lc_call_data' = rows
  /\ futures' = Chunks(group_keys(rows), chunk_size(group_keys(rows), cpu_count))
  /\ pending' = DOMAIN futures'
  /\ call_stats' = <<>>
  /\ lc_pc' = "collect"
  /\ UNCHANGED graph

\* for future in as_completed(futures): call_stats.update(future.result())
as_completed(i) ==
  /\ lc_pc = "collect"
  /\ i \in pending
  /\ call_stats' =
       DictUpdate(call_stats, process_call_chunk(futures[i], lc_call_data, <<>>))
  /\ pending' = pending \ {i}
  /\ UNCHANGED <<lc_call_data, futures, graph, lc_pc>>

\* graph.clear(); add_nodes_from(all_phones); add_edge for every call_stats
build_graph ==
  /\ lc_pc = "collect"
  /\ pending = {}
  /\ graph' =
       [nodes |-> {lc_call_data[i].caller : i \in 1..Len(lc_call_data)}
                  \cup {lc_call_data[i].receiver : i \in 1..Len(lc_call_data)},
        edges |-> [k \in DOMAIN call_stats |->
                     [call_count |-> call_stats[k].count,
                      first_call |-> call_stats[k].first_call,
                      last_call |-> call_stats[k].last_call]]]
  /\ lc_pc' = "done"
  /\ UNCHANGED <<lc_call_data, futures, pending, call_stats>>

\* ------------------------------------- linkchart.py: the format of a file
\* column names a loaded file may have
ColumnNames ==
  {"Target Number", "Call Direction", "From or To Number", "Date", "Start",
   "caller", "receiver", "source", "destination"}

\* the names whose lower case contains one of caller_patterns
\* ('caller', 'from', 'source', 'originator', 'a_number')
CallerLike == {"From or To Number", "caller", "source"}

\* the names whose lower case contains one of receiver_patterns
\* ('receiver', 'to', 'destination', 'called', 'b_number')
ReceiverLike == {"From or To Number", "receiver", "destination"}

NoSchema == [columns |-> {}, format |-> "none", error |-> FALSE, after |-> {}]

\* process_new_format_optimized: the three columns read outside the try
\* raise KeyError when missing; a missing Date or Start is caught and the
\* timestamp is set to now
process_new_format_optimized(columns) ==
  IF {"Target Number", "From or To Number", "Call Direction"} \subseteq columns
  THEN [error |-> FALSE, after |-> columns \cup {"caller", "receiver", "timestamp"}]
  ELSE [error |-> TRUE, after |-> columns]

\* process_old_format: adds the timestamp column only
process_old_format(columns) ==
  [error |-> FALSE, after |-> columns \cup {"timestamp"}]

\* auto_detect_format: a column is taken as the caller column when it
\* matches a caller pattern, as the receiver column only when it matches no
\* caller pattern and a receiver pattern
auto_detect_format(columns) ==
  LET caller_cols == columns \cap CallerLike
      receiver_cols == (columns \ CallerLike) \cap ReceiverLike
  IN IF caller_cols # {} /\ receiver_cols # {}
     THEN [error |-> FALSE,
           after |-> columns \cup {"caller", "receiver", "timestamp"}]
     ELSE [error |-> TRUE, after |-> columns]         \* ValueError

normalize_csv_format(columns) ==
  LET format == IF "Target Number" \in columns THEN "new"
                ELSE IF "caller" \in columns THEN "old"
                ELSE "auto"
      done == IF format = "new" THEN process_new_format_optimized(columns)
              ELSE IF format = "old" THEN process_old_format(columns)
              ELSE auto_detect_format(columns)
  IN [columns |-> columns, format |-> format, error |-> done.error,
      after |-> done.after]

\* a file with the columns columns is loaded and its format normalized
normalize(columns) ==
  /\ schema' = normalize_csv_format(columns)
  /\ UNCHANGED <<applied, current_filters, jobs, result_queue,
                 filtered_graph, filtered_from, persons>>

\* ----------------------------------------- linkchart.py: the filter worker
\* filters.get(...) of the empty dict self.current_filters starts with
DefaultFilters ==
  [date_from |-> "YYYY-MM-DD", date_to |-> "YYYY-MM-DD",
   time_from |-> "HH:MM", time_to |-> "HH:MM",
   max_nodes |-> 100, min_calls |-> 1,
   show_persons |-> TRUE, show_orphan_phones |-> TRUE]

EmptyGraph == [nodes |-> {}, edges |-> <<>>]

NoJob == [filters |-> DefaultFilters, data |-> <<>>]

NotApplied == [job |-> NoJob, kept |-> <<>>, graph |-> EmptyGraph, done |-> TRUE]

\* the seconds since midnight of the times of day in the loaded rows
ClockSeconds == [t \in {"00:00:30", "00:01:30"} |->
                   CASE t = "00:00:30" -> 30
                     [] t = "00:01:30" -> 90]

\* pd.to_datetime('HH:MM').time() of the time bounds entered: HH:MM:00
BoundSeconds == [t \in {"00:01"} |-> 60]

\* a normalized row of call_data; timestamp is the date, time the time of day
FilterRow(c, r, ts, t) ==
  [caller |-> c, receiver |-> r, timestamp |-> ts, time |-> t]

\* calls of "1" to "2", of "2" to "1" and of "2" to "3", early on the first
\* date or later on the second
FilterRows ==
  {FilterRow(k[1], k[2], st[1], st[2]) :
     k \in {<<"1", "2">>, <<"2", "1">>, <<"2", "3">>},
     st \in {<<"2024-01-05", "00:00:30">>, <<"2024-01-09", "00:01:30">>}}

FilterFiles == UNION {[1..n -> FilterRows] : n \in 1..MaxCalls}

\* FilterPanel.get_filters, for the values entered in the panel
FilterSettings ==
  [date_from : {"YYYY-MM-DD", "2024-01-09"},
   date_to : {"YYYY-MM-DD", "2024-01-05"},
   time_from : {"HH:MM", "00:01"},
   time_to : {"HH:MM", "00:01"},
   max_nodes : {1, 2, 100},
   min_calls : {1, 2},
   show_persons : BOOLEAN,
   show_orphan_phones : BOOLEAN]

\* the persons registries: empty, or one person owning phone "1"
Registries == {<<>>, [id \in {"person_1"} |-> {"1"}]}

\* seconds between the first midnight and the timestamp of a row
Instant(row) == DateOrd[row.timestamp] * 86400 + ClockSeconds[row.time]

\* pd.to_datetime('YYYY-MM-DD'): midnight of that date
Midnight(date) == DateOrd[date] * 86400

\* the filtering stage: the four optional comparisons against the bounds
window(filters, data) ==
  LET from_date(row) ==
        filters.date_from = "YYYY-MM-DD"
          \/ Instant(row) >= Midnight(filters.date_from)
      to_date(row) ==
        filters.date_to = "YYYY-MM-DD"
          \/ Instant(row) <= Midnight(filters.date_to)
      from_time(row) ==
        filters.time_from = "HH:MM"
          \/ ClockSeconds[row.time] >= BoundSeconds[filters.time_from]
      to_time(row) ==
        filters.time_to = "HH:MM"
          \/ ClockSeconds[row.time] <= BoundSeconds[filters.time_to]
      Keep(row) == from_date(row) /\ to_date(row) /\ from_time(row) /\ to_time(row)
  IN SelectSeq(data, Keep)                           \* data[mask]

\* the key of a row if caller and receiver were not sorted
directed_key(row) == <<row.caller, row.receiver>>

\* tuple(sorted([row['caller'], row['receiver']]))
edge_key(row) == SortedPair(row.caller, row.receiver)

\* the keys of call_details, in the order the rows insert them
RECURSIVE call_details_keys(_, _)
call_details_keys(data, keys) ==
  IF data = <<>> THEN keys
  ELSE call_details_keys(
         Tail(data),
         IF \E i \in 1..Len(keys) : keys[i] = edge_key(Head(data))
         THEN keys ELSE Append(keys, edge_key(Head(data))))

\* call_details[key]['dates'], as the rows of that key
details(data, key) == LET Keep(row) == edge_key(row) = key IN SelectSeq(data, Keep)                           \* data[mask]

Endpoints(keys) == UNION {{keys[i][1], keys[i][2]} : i \in 1..Len(keys)}

\* the keys of phone_activity, in the order p1, p2 of every edge inserts them
RECURSIVE phone_activity_keys(_, _)
phone_activity_keys(keys, phones) ==
  IF keys = <<>> THEN phones
  ELSE LET p1 == Head(keys)[1]
           p2 == Head(keys)[2]
           with1 == IF \E i \in 1..Len(phones) : phones[i] = p1
                    THEN phones ELSE Append(phones, p1)
           with2 == IF \E i \in 1..Len(with1) : with1[i] = p2
                    THEN with1 ELSE Append(with1, p2)
       IN phone_activity_keys(Tail(keys), with2)

\* phone_activity[p]: the counts of the edges at p, a loop counted twice
RECURSIVE phone_activity(_, _, _)
phone_activity(keys, count, p) ==
  IF keys = <<>> THEN 0
  ELSE (IF Head(keys)[1] = p THEN count[Head(keys)] ELSE 0)
       + (IF Head(keys)[2] = p THEN count[Head(keys)] ELSE 0)
       + phone_activity(Tail(keys), count, p)

\* sorted(phones, key=activity.get, reverse=True): a stable sort, equal
\* activities keep the order of phones
RECURSIVE sorted_by_activity(_, _)
sorted_by_activity(phones, activity) ==
  IF phones = <<>> THEN <<>>
  ELSE LET i == CHOOSE i \in 1..Len(phones) :
                  /\ \A j \in 1..Len(phones) :
                       activity[phones[j]] <= activity[phones[i]]
                  /\ \A j \in 1..(i - 1) :
                       activity[phones[j]] < activity[phones[i]]
       IN <<phones[i]>> \o sorted_by_activity(SeqWithout(phones, phones[i]), activity)

\* sorted(...)[:max_nodes], as a set
top_phones(keys, count, max_nodes) ==
  LET phones == phone_activity_keys(keys, <<>>)
      activity == [p \in Endpoints(keys) |-> phone_activity(keys, count, p)]
      ranked == sorted_by_activity(phones, activity)
  IN {ranked[i] : i \in 1..IF max_nodes < Len(ranked) THEN max_nodes
                                                     ELSE Len(ranked)}

EarliestOf(rows) ==
  LET i == CHOOSE i \in 1..Len(rows) :
             \A j \in 1..Len(rows) : Instant(rows[i]) <= Instant(rows[j])
  IN <<rows[i].timestamp, rows[i].time>>

LatestOf(rows) ==
  LET i == CHOOSE i \in 1..Len(rows) :
             \A j \in 1..Len(rows) : Instant(rows[i]) >= Instant(rows[j])
  IN <<rows[i].timestamp, rows[i].time>>

\* the graph building stage on the rows the filtering stage kept
build_filtered(filters, data) ==
  IF data = <<>> THEN EmptyGraph
  ELSE
    LET keys == call_details_keys(data, <<>>)
        count == [k \in {keys[i] : i \in 1..Len(keys)} |-> Len(details(data, k))]
        Enough(k) == count[k] >= filters.min_calls
        filtered_edges == SelectSeq(keys, Enough)
        all_phones == Endpoints(filtered_edges)
        capped == Cardinality(all_phones) > filters.max_nodes
        top == top_phones(filtered_edges, count, filters.max_nodes)
        InTop(k) == k[1] \in top /\ k[2] \in top
        edges == IF capped THEN SelectSeq(filtered_edges, InTop)
                 ELSE filtered_edges
    IN [nodes |-> IF capped THEN top ELSE all_phones,
        edges |-> [k \in {edges[i] : i \in 1..Len(edges)} |->
                     [call_count |-> count[k],
                      first_call |-> EarliestOf(details(data, k)),
                      last_call |-> LatestOf(details(data, k))]]]

\* the graph the worker puts on the result queue
_worker_apply_filters(filters, data) ==
  build_filtered(filters, window(filters, data))

\* one call of the worker on the filters and data handed to it
apply_filters ==
  /\ ~applied.done
  /\ applied' = [applied EXCEPT
                   !.kept = window(applied.job.filters, applied.job.data),
                   !.graph = _worker_apply_filters(applied.job.filters,
                                                   applied.job.data),
                   !.done = TRUE]
  /\ UNCHANGED <<schema, current_filters, jobs, result_queue,
                 filtered_graph, filtered_from, persons>>


\* ------------------------------------- linkchart.py: layout, zoom and pan
\* nx.spring_layout(graph, k=3, iterations=50, seed=42): a fixed function of
\* the graph with coordinates in [-1, 1]; its values are stood for by the
\* nodes spread evenly in identifier order
spring_layout(G) ==
  LET n == Cardinality(G.nodes)
      rank(p) == Cardinality({q \in G.nodes : Ord(q) < Ord(p)})
      x(p) == IF n = 1 THEN 0 ELSE (2000 * rank(p)) \div (n - 1) - 1000
  IN [p \in G.nodes |-> <<x(p), 0 - x(p) \div 2>>]

\* apply_zoom_pan: self.pos[node] = (x * zoom_factor + pan, y * ... + pan)
apply_zoom_pan(layout_pos, zoom, pan) ==
  [p \in DOMAIN layout_pos |->
     <<(layout_pos[p][1] * zoom) \div 1000 + pan[1],
       (layout_pos[p][2] * zoom) \div 1000 + pan[2]>>]

\* self.pos after update_graph: untouched when there is nothing to display
update_graph(G, zoom, pan) ==
  IF G.nodes = {} THEN lc_pos ELSE apply_zoom_pan(spring_layout(G), zoom, pan)

\* reset_layout: zoom and pan are reset and the layout is computed again
reset_layout(G) ==
  /\ zoom_factor' = 1000
  /\ pan_offset' = <<0, 0>>
  /\ lc_pos' = update_graph(G, 1000, <<0, 0>>)
  /\ UNCHANGED drag_start_offset

\* on_scroll: zoom_factor *= 1.1 or 0.9, kept within [0.1, 10]
on_scroll(up) ==
  LET scaled == IF up THEN (zoom_factor * 11) \div 10
                ELSE (zoom_factor * 9) \div 10
      limited == IF scaled > 10000 THEN 10000
                 ELSE IF scaled < 100 THEN 100 ELSE scaled
  IN /\ limited >= MinZoomFactor /\ limited <= MaxZoomFactor
     /\ zoom_factor' = limited
     /\ lc_pos' = update_graph(filtered_graph, limited, pan_offset)
     /\ UNCHANGED <<pan_offset, drag_start_offset>>

\* on_click with the left button: the pan drag begins
on_click ==
  /\ drag_start_offset' = pan_offset
  /\ UNCHANGED <<lc_pos, zoom_factor, pan_offset>>

\* on_motion, the pointer being d away from where the drag began
on_motion(d) ==
  /\ drag_start_offset # None
  /\ drag_start_offset[1] + d[1] <= MaxPan
  /\ pan_offset' = <<drag_start_offset[1] + d[1], drag_start_offset[2] + d[2]>>
  /\ lc_pos' = update_graph(filtered_graph, zoom_factor, pan_offset')
  /\ UNCHANGED <<zoom_factor, drag_start_offset>>

on_release ==
  /\ drag_start_offset' = None
  /\ UNCHANGED <<lc_pos, zoom_factor, pan_offset>>

\* pointer movements since the pan drag began, in 1/1000
PanDeltas == {<<250, 0>>}

\* ------------------------------------------- linkchart.py: the filter jobs
\* pd.to_datetime(..., errors='coerce') of a date the format does not match
NaT == "NaT"

\* the files loaded while filter jobs run
JobFiles ==
  {<<FilterRow("1", "2", "2024-01-05", "00:00:30")>>,
   <<FilterRow("2", "1", "2024-01-09", "00:01:30"),
     FilterRow("1", "2", "2024-01-05", "00:00:30"),
     FilterRow("2", "3", "2024-01-09", "00:01:30")>>}

\* the files loaded while the result polls run: those, and a file whose one
\* call has a date that does not parse
PollFiles == JobFiles \cup {<<FilterRow("1", "2", NaT, NaT)>>}

\* the settings the filter panel sends while filter jobs run
JobFilters ==
  {DefaultFilters,
   [DefaultFilters EXCEPT !.min_calls = 2],
   [DefaultFilters EXCEPT !.max_nodes = 2]}

\* the group keys process_call_chunk stores: a group whose timestamps are all
\* NaT raises in first_call.strftime and is skipped by the except clause
dated_keys(rows) ==
  LET Dated(key) ==
        \E i \in 1..Len(rows) :
          /\ <<rows[i].caller, rows[i].receiver>> = key
          /\ rows[i].timestamp # NaT
  IN SelectSeq(group_keys(rows), Dated)

\* the edge keys the worker builds the final graph from
final_edges(filters, data) ==
  LET keys == call_details_keys(data, <<>>)
      count == [k \in {keys[i] : i \in 1..Len(keys)} |-> Len(details(data, k))]
      Enough(k) == count[k] >= filters.min_calls
      filtered_edges == SelectSeq(keys, Enough)
      top == top_phones(filtered_edges, count, filters.max_nodes)
      InTop(k) == k[1] \in top /\ k[2] \in top
  IN IF Cardinality(Endpoints(filtered_edges)) > filters.max_nodes
     THEN SelectSeq(filtered_edges, InTop) ELSE filtered_edges

\* the worker ends in ValueError: dates[0].strftime or dates[-1].strftime
\* of an edge is called on NaT; sorted() leaves a NaT where it stood among
\* the one or two dates an edge has here
worker_raises(filters, data) ==
  LET kept == window(filters, data)
      edges == final_edges(filters, kept)
  IN \E i \in 1..Len(edges) :
       LET dates == details(kept, edges[i])
       IN dates[1].timestamp = NaT \/ dates[Len(dates)].timestamp = NaT

\* what a worker would read if it looked at the application when it runs
LiveInput(job) == [filters |-> current_filters, data |-> lc_call_data]

\* what the worker reads: its two arguments, bound when the job was submitted
JobInput(job) == job

\* apply_current_filters: nothing without data, else submit the worker with
\* self.current_filters and self.call_data.copy()
apply_current_filters(filters, data) ==
  /\ data # <<>> => /\ Len(jobs) + Len(result_queue) < MaxJobs
                    /\ poll_timers < MaxPolls
  /\ jobs' = IF data = <<>> THEN jobs
             ELSE Append(jobs, [filters |-> filters, data |-> data])
  /\ progress_bar' = (data # <<>> \/ progress_bar)      \* progress_bar.start()
  /\ poll_timers' = IF data = <<>> THEN poll_timers     \* root.after(100, ...)
                    ELSE poll_timers + 1

\* load_csv_data: the file replaces call_data, the source graph is rebuilt
\* from the collected chunk results, and a filter job is submitted
load_csv_data(rows) ==
  /\ lc_pc = "idle"
  /\ lc_call_data' = rows
  /\ futures' = <<>>
  /\ pending' = {}
  /\ call_stats' = process_call_chunk(dated_keys(rows), rows, <<>>)
  /\ graph' =
       [nodes |-> {rows[i].caller : i \in 1..Len(rows)}
                  \cup {rows[i].receiver : i \in 1..Len(rows)},
        edges |-> [k \in DOMAIN call_stats' |->
                     [call_count |-> call_stats'[k].count,
                      first_call |-> call_stats'[k].first_call,
                      last_call |-> call_stats'[k].last_call]]]
  /\ apply_current_filters(current_filters, rows)
  /\ UNCHANGED <<lc_pc, schema, applied, current_filters, result_queue,
                 filtered_graph, filtered_from, persons, view>>

on_filter_change(filters) ==
  /\ current_filters' = filters
  /\ apply_current_filters(filters, lc_call_data)
  /\ UNCHANGED <<linkchart, schema, applied, result_queue, filtered_graph,
                 filtered_from, persons, view>>

\* a pool thread runs job i to its end and puts the graph on the queue, or
\* ends in an exception its future keeps and puts nothing; job and overtaken
\* record the submitted job and whether the application had other data or
\* filters by then
worker_done(i) ==
  /\ i \in 1..Len(jobs)
  /\ result_queue' =
       IF worker_raises(JobInput(jobs[i]).filters, JobInput(jobs[i]).data)
       THEN result_queue
       ELSE Append(result_queue,
                   [job |-> jobs[i],
                    overtaken |-> jobs[i] # LiveInput(jobs[i]),
                    graph |-> _worker_apply_filters(JobInput(jobs[i]).filters,
                                                    JobInput(jobs[i]).data)])
  /\ jobs' = [j \in 1..(Len(jobs) - 1) |-> IF j < i THEN jobs[j] ELSE jobs[j + 1]]
  /\ UNCHANGED <<linkchart, schema, applied, current_filters, filtered_graph,
                 filtered_from, persons, view, polling>>

\* _check_filter_results, called by one of the timers: with a result on the
\* queue the result is installed, the progress bar stops and reset_layout
\* lays the graph out; with none (queue.Empty) it schedules itself again
_check_filter_results ==
  /\ poll_timers > 0
  /\ IF result_queue = <<>>
     THEN UNCHANGED <<result_queue, filtered_graph, filtered_from, view,
                      polling>>
     ELSE /\ filtered_graph' = Head(result_queue).graph
          /\ filtered_from' = Head(result_queue).job
          /\ result_queue' = Tail(result_queue)
          /\ progress_bar' = FALSE
          /\ poll_timers' = poll_timers - 1
          /\ reset_layout(filtered_graph')
  /\ UNCHANGED <<linkchart, schema, applied, current_filters, jobs, persons>>

\* the person manager dialog leaves the registry as edited; the graph is
\* drawn again when it closes
open_person_manager(registry) ==
  /\ persons' = registry
  /\ lc_pos' = update_graph(filtered_graph, zoom_factor, pan_offset)
  /\ UNCHANGED <<zoom_factor, pan_offset, drag_start_offset>>
  /\ UNCHANGED <<linkchart, schema, applied, current_filters, jobs,
                 result_queue, filtered_graph, filtered_from, polling>>

\* ------------------------------------ linkchart.py: the person dialog
\* Person.id: person_<timestamp>, a new one for every Person
PersonIds == <<"person_1", "person_2">>

\* assigned: the union of the phone_numbers of all persons
AssignedPhones(registry) == UNION {registry[id] : id \in DOMAIN registry}

\* an available list that shows every phone
all_phones_listed(registry, phones) == phones

\* refresh_available_phones: the phones no person has
refresh_available_phones(registry, phones) == phones \ AssignedPhones(registry)

\* open_person_manager up to wait_window: the dialog is built
PersonManagementDialog ==
  /\ ~person_manager_window
  /\ person_manager_window' = TRUE
  /\ dialog_phones' =
       {lc_call_data[i].caller : i \in 1..Len(lc_call_data)}
         \cup {lc_call_data[i].receiver : i \in 1..Len(lc_call_data)}
  /\ current_person_id' = None
  /\ assigned_listbox' = {}
  /\ available_listbox' = refresh_available_phones(persons, dialog_phones')
  /\ UNCHANGED <<persons, persons_made>>

add_person ==
  /\ person_manager_window
  /\ persons_made < MaxPersons
  /\ persons_made' = persons_made + 1
  /\ persons' = [id \in DOMAIN persons \cup {PersonIds[persons_made']} |->
                   IF id \in DOMAIN persons THEN persons[id] ELSE {}]
  /\ UNCHANGED <<person_manager_window, dialog_phones, current_person_id,
                 available_listbox, assigned_listbox>>

on_person_select(person_id) ==
  /\ person_manager_window
  /\ person_id \in DOMAIN persons
  /\ current_person_id' = person_id
  /\ assigned_listbox' = persons[person_id]
  /\ available_listbox' = refresh_available_phones(persons, dialog_phones)
  /\ UNCHANGED <<persons, person_manager_window, dialog_phones, persons_made>>

\* phone: the selected entry of the available list
assign_phone(phone) ==
  /\ person_manager_window
  /\ phone \in available_listbox
  /\ IF current_person_id = None \/ current_person_id \notin DOMAIN persons
     THEN UNCHANGED <<persons, assigned_listbox, available_listbox>>
                                                   \* warning, or KeyError
     ELSE /\ persons' = [persons EXCEPT ![current_person_id] = @ \cup {phone}]
          /\ assigned_listbox' = assigned_listbox \cup {phone}
          /\ available_listbox' =
               refresh_available_phones(persons', dialog_phones)
  /\ UNCHANGED <<person_manager_window, dialog_phones, current_person_id,
                 persons_made>>

\* phone: the selected entry of the assigned list
remove_phone(phone) ==
  /\ person_manager_window
  /\ phone \in assigned_listbox
  /\ IF current_person_id = None \/ current_person_id \notin DOMAIN persons
     THEN UNCHANGED <<persons, assigned_listbox, available_listbox>>
     ELSE /\ persons' = [persons EXCEPT ![current_person_id] = @ \ {phone}]
          /\ assigned_listbox' = assigned_listbox \ {phone}
          /\ available_listbox' =
               refresh_available_phones(persons', dialog_phones)
  /\ UNCHANGED <<person_manager_window, dialog_phones, current_person_id,
                 persons_made>>

\* result: the answer to "Delete <name>?"
delete_person(result) ==
  /\ person_manager_window
  /\ IF current_person_id = None \/ current_person_id \notin DOMAIN persons
        \/ ~result
     THEN UNCHANGED <<persons, assigned_listbox, available_listbox>>
     ELSE /\ persons' = [id \in DOMAIN persons \ {current_person_id} |->
                           persons[id]]
          /\ assigned_listbox' = {}
          /\ available_listbox' =
               refresh_available_phones(persons', dialog_phones)
  /\ UNCHANGED <<person_manager_window, dialog_phones, current_person_id,
                 persons_made>>

\* the dialog is closed: open_person_manager draws the graph again
close_person_manager ==
  /\ person_manager_window
  /\ person_manager_window' = FALSE
  /\ lc_pos' = update_graph(filtered_graph, zoom_factor, pan_offset)
  /\ UNCHANGED <<persons, dialog_phones, current_person_id,
                 available_listbox, assigned_listbox, persons_made,
                 zoom_factor, pan_offset, drag_start_offset>>

\* the owner draw_nodes finds: the first person, in dict order, with the phone
FirstOwner(phone) ==
  PersonIds[CHOOSE i \in 1..Len(PersonIds) :
              /\ PersonIds[i] \in DOMAIN persons
              /\ phone \in persons[PersonIds[i]]
              /\ \A j \in 1..(i - 1) :
                   PersonIds[j] \in DOMAIN persons
                     => phone \notin persons[PersonIds[j]]]

\* the owner update_detail_view shows: the last person with the phone
LastOwner(phone) ==
  PersonIds[CHOOSE i \in 1..Len(PersonIds) :
              /\ PersonIds[i] \in DOMAIN persons
              /\ phone \in persons[PersonIds[i]]
              /\ \A j \in (i + 1)..Len(PersonIds) :
                   PersonIds[j] \in DOMAIN persons
                     => phone \notin persons[PersonIds[j]]]

\* ----------------------------------------------------------- the program
DialogResults == {None, ""} \cup NoteTexts

Init ==
  /\ phone_nodes = <<>>
  /\ node_widgets = {}
  /\ connection_lines = <<>>
  /\ call_data = EmptyDict
  /\ selected_phone = None
  /\ selected_connection = NoConnection
  /\ dragging = FALSE
  /\ connecting = FALSE
  /\ connection_start = None
  /\ temp_line = FALSE
  /\ last_zoom = 100
  /\ events = 0
  /\ last_event = Event("init", <<>>, "", "")
  /\ lc_call_data = <<>>
  /\ futures = <<>>
  /\ pending = {}
  /\ call_stats = <<>>
  /\ graph = [nodes |-> {}, edges |-> <<>>]
  /\ lc_pc = "idle"
  /\ schema = NoSchema
  /\ applied = NotApplied
  /\ current_filters = DefaultFilters
  /\ jobs = <<>>
  /\ result_queue = <<>>
  /\ filtered_graph = EmptyGraph
  /\ filtered_from = NoJob
  /\ persons = <<>>
  /\ widget_at = <<>>
  /\ placed = {}
  /\ zoom_var = 100
  /\ zoom_debounce_timer = FALSE
  /\ lc_pos = <<>>
  /\ zoom_factor = 1000
  /\ pan_offset = <<0, 0>>
  /\ drag_start_offset = None
  /\ person_manager_window = FALSE
  /\ dialog_phones = {}
  /\ current_person_id = None
  /\ available_listbox = {}
  /\ assigned_listbox = {}
  /\ persons_made = 0
  /\ poll_timers = 0
  /\ progress_bar = FALSE
  /\ node_color = [p \in Phones |-> 0]
  /\ widget_color = [p \in Phones |-> 0]
  /\ _pending_color_refresh = None
  /\ refresh_timers = <<>>
  /\ last_refresh = NoRefresh

\* dragging holds exactly while the left button is down, from the press on a
\* phone to the release; the handlers that need the pointer (menus, buttons,
\* dialogs, further presses) come only while it is up, the keys at any time
PointerFree == ~dragging

\* one more event is handled
Tick ==
  /\ events < MaxEvents
  /\ events' = events + 1
  /\ UNCHANGED <<linkchart, filtering, layout, view, dialog, polling>>

Next ==
  \/ Tick /\ UNCHANGED recolor /\ PointerFree /\ \E file \in Files : import_cdr_csv(file)
  \/ Tick /\ UNCHANGED recolor /\ PointerFree /\ \E p \in AddPhones : add_phone(p)
  \/ Tick /\ UNCHANGED recolor /\ PointerFree /\ \E result \in BOOLEAN : delete_phone(result)
  \/ Tick /\ UNCHANGED recolor /\ PointerFree /\ \E result \in BOOLEAN : delete_connection(result)
  \/ Tick /\ UNCHANGED recolor /\ PointerFree
          /\ \E t \in Phones \cup {None}, result \in DialogResults :
                on_right_click(t, result)
  \/ Tick /\ UNCHANGED recolor /\ PointerFree
          /\ \E p \in Phones \cup {None},
                k \in (Phones \X Phones) \cup {NoConnection} :
                on_canvas_click(p, k)
  \/ Tick /\ UNCHANGED recolor /\ PointerFree
          /\ \E t \in Phones \X Phones, result \in DialogResults :
                on_double_click(t, result)
  \/ Tick /\ UNCHANGED recolor /\ \E delta \in DragDeltas : on_canvas_drag(delta)
  \/ Tick /\ on_canvas_release
  \/ Tick /\ UNCHANGED recolor /\ on_escape_key
  \/ Tick /\ UNCHANGED recolor /\ \E result \in BOOLEAN : on_delete_key(result)

Spec == Init /\ [][Next]_vars

\* imports, drags and zooms with the canvas positions of the widgets
Still == UNCHANGED <<events, linkchart, filtering, view, dialog, polling>>

NextLayout ==
  \/ Still /\ UNCHANGED recolor /\ PointerFree /\ \E file \in Files : canvas_import_cdr_csv(file)
  \/ Still /\ UNCHANGED recolor /\ PointerFree /\ \E p \in Phones \cup {None} : canvas_click(p)
  \/ Still /\ UNCHANGED recolor /\ \E delta \in CanvasDeltas : canvas_drag(delta)
  \/ Still /\ canvas_release
  \/ Still /\ UNCHANGED recolor /\ \E value \in ZoomLevels : zoom_slider(value)
  \/ Still /\ UNCHANGED recolor /\ \E up \in BOOLEAN : on_mouse_wheel(up)
  \/ Still /\ UNCHANGED recolor /\ _perform_zoom_update

SpecLayout == Init /\ [][NextLayout]_vars

\* imports, drags and color changes with the refresh callbacks; Tk calls
\* every callback root.after holds
NextRefresh ==
  \/ Still /\ UNCHANGED recolor /\ PointerFree
           /\ \E file \in Files : canvas_import_cdr_csv(file)
  \/ Still /\ UNCHANGED recolor /\ PointerFree
           /\ \E p \in Phones \cup {None} : canvas_click(p)
  \/ Still /\ UNCHANGED recolor /\ \E delta \in CanvasDeltas : canvas_drag(delta)
  \/ Still /\ canvas_release
  \/ Still /\ on_color_cycle_key
  \/ Still /\ refresh_callback

SpecRefresh ==
  Init /\ [][NextRefresh]_vars /\ WF_vars(Still /\ refresh_callback)

\* imports only, of files that hold malformed rows as well
NextImport ==
  Tick /\ UNCHANGED recolor /\ \E file \in ImportFiles : import_cdr_csv(file)

SpecImport == Init /\ [][NextImport]_vars

\* linkchart.py is a program of its own: loading a file and aggregating it
NextAgg ==
  \/ \E rows \in LoadedFiles, cpu_count \in CpuCounts :
       submit_chunks(rows, cpu_count) /\ UNCHANGED <<app, layout, view, dialog, polling, recolor, events, last_event, filtering>>
  \/ \E i \in pending : as_completed(i) /\ UNCHANGED <<app, layout, view, dialog, polling, recolor, events, last_event, filtering>>
  \/ build_graph /\ UNCHANGED <<app, layout, view, dialog, polling, recolor, events, last_event, filtering>>

SpecAgg == Init /\ [][NextAgg]_vars

\* the format detection applied to every set of column names
NextSchema ==
  \E columns \in SUBSET ColumnNames :
    normalize(columns) /\ UNCHANGED <<app, layout, view, dialog, polling, recolor, events, last_event, linkchart>>

SpecSchema == Init /\ [][NextSchema]_vars

\* the filter worker applied to every file, filter setting and registry
InitFilter ==
  /\ phone_nodes = <<>>
  /\ node_widgets = {}
  /\ connection_lines = <<>>
  /\ call_data = EmptyDict
  /\ selected_phone = None
  /\ selected_connection = NoConnection
  /\ dragging = FALSE
  /\ connecting = FALSE
  /\ connection_start = None
  /\ temp_line = FALSE
  /\ last_zoom = 100
  /\ events = 0
  /\ last_event = Event("init", <<>>, "", "")
  /\ lc_call_data \in FilterFiles
  /\ futures = <<>>
  /\ pending = {}
  /\ call_stats = <<>>
  /\ graph = EmptyGraph
  /\ lc_pc = "idle"
  /\ schema = NoSchema
  /\ current_filters \in FilterSettings
  /\ applied = [job |-> [filters |-> current_filters, data |-> lc_call_data],
                kept |-> <<>>, graph |-> EmptyGraph, done |-> FALSE]
  /\ jobs = <<>>
  /\ result_queue = <<>>
  /\ filtered_graph = EmptyGraph
  /\ filtered_from = NoJob
  /\ persons \in Registries
  /\ widget_at = <<>>
  /\ placed = {}
  /\ zoom_var = 100
  /\ zoom_debounce_timer = FALSE
  /\ lc_pos = <<>>
  /\ zoom_factor = 1000
  /\ pan_offset = <<0, 0>>
  /\ drag_start_offset = None
  /\ person_manager_window = FALSE
  /\ dialog_phones = {}
  /\ current_person_id = None
  /\ available_listbox = {}
  /\ assigned_listbox = {}
  /\ persons_made = 0
  /\ poll_timers = 0
  /\ progress_bar = FALSE
  /\ node_color = [p \in Phones |-> 0]
  /\ widget_color = [p \in Phones |-> 0]
  /\ _pending_color_refresh = None
  /\ refresh_timers = <<>>
  /\ last_refresh = NoRefresh

NextFilter ==
  apply_filters /\ UNCHANGED <<app, layout, view, dialog, polling, recolor, events, last_event, linkchart>>

SpecFilter == InitFilter /\ [][NextFilter]_vars

\* loads, filter changes and registry edits while filter jobs run
NextJobs ==
  \/ (\E rows \in JobFiles : load_csv_data(rows))
       /\ UNCHANGED <<app, layout, dialog, recolor, events, last_event>>
  \/ (\E filters \in JobFilters : on_filter_change(filters))
       /\ UNCHANGED <<app, layout, dialog, recolor, events, last_event>>
  \/ (\E i \in 1..MaxJobs : worker_done(i))
       /\ UNCHANGED <<app, layout, dialog, recolor, events, last_event>>
  \/ _check_filter_results /\ UNCHANGED <<app, layout, dialog, recolor, events, last_event>>
  \/ (\E registry \in Registries : open_person_manager(registry))
       /\ UNCHANGED <<app, layout, dialog, recolor, events, last_event>>

SpecJobs == Init /\ [][NextJobs]_vars

\* the filter jobs and the polls for their results; the pool runs every
\* submitted worker to its end and Tk calls every scheduled timer
PollStill == UNCHANGED <<app, layout, dialog, recolor, events, last_event>>

NextPoll ==
  \/ PollStill /\ \E rows \in PollFiles : load_csv_data(rows)
  \/ PollStill /\ \E filters \in JobFilters : on_filter_change(filters)
  \/ PollStill /\ \E i \in 1..MaxJobs : worker_done(i)
  \/ PollStill /\ _check_filter_results

SpecPoll ==
  /\ Init
  /\ [][NextPoll]_vars
  /\ WF_vars(PollStill /\ \E i \in 1..MaxJobs : worker_done(i))
  /\ WF_vars(PollStill /\ _check_filter_results)

\* the filter jobs together with zooming and panning of the graph view
ViewStill ==
  UNCHANGED <<app, layout, dialog, polling, recolor, events, last_event,
              linkchart, filtering>>

NextView ==
  \/ NextJobs
  \/ ViewStill /\ \E up \in BOOLEAN : on_scroll(up)
  \/ ViewStill /\ on_click
  \/ ViewStill /\ \E d \in PanDeltas : on_motion(d)
  \/ ViewStill /\ on_release
  \/ ViewStill /\ reset_layout(filtered_graph)

SpecView == Init /\ [][NextView]_vars

\* files are loaded and the person dialog is used
DialogStill ==
  UNCHANGED <<app, layout, polling, recolor, events, last_event, linkchart,
              schema, applied, current_filters, jobs, result_queue,
              filtered_graph, filtered_from>>

NextPersons ==
  \/ /\ ~person_manager_window
     /\ \E rows \in JobFiles : load_csv_data(rows)
     /\ UNCHANGED <<app, layout, dialog, recolor, events, last_event>>
  \/ DialogStill /\ PersonManagementDialog /\ UNCHANGED view
  \/ DialogStill /\ add_person /\ UNCHANGED view
  \/ DialogStill /\ UNCHANGED view
       /\ \E person_id \in DOMAIN persons : on_person_select(person_id)
  \/ DialogStill /\ UNCHANGED view
       /\ \E phone \in Phones : assign_phone(phone)
  \/ DialogStill /\ UNCHANGED view
       /\ \E phone \in Phones : remove_phone(phone)
  \/ DialogStill /\ UNCHANGED view
       /\ \E result \in BOOLEAN : delete_person(result)
  \/ DialogStill /\ close_person_manager

SpecPersons == Init /\ [][NextPersons]_vars

\* ------------------------------------------------------------- properties
\* the call records and the manual notes of a record list
CallsOf(recs) == SelectSeq(recs, LAMBDA r : r.direction # "Manual Note")
NotesOf(recs) == SelectSeq(recs, LAMBDA r : r.direction = "Manual Note")

Orientations(k) == {<<k[1], k[2]>>, <<k[2], k[1]>>}

\* C1: for all phones A # B the list under call_data[A][B] is present iff
\* the list under call_data[B][A] is, and the two lists are equal
C1_PairCanonical ==
  \A A \in Phones, B \in Phones :
    A # B =>
      /\ HasIn(call_data, A, B) <=> HasIn(call_data, B, A)
      /\ Records(call_data, A, B) = Records(call_data, B, A)

\* C2: once the graph is built, every pair A # B with loaded rows has an edge
\* whose call_count is the number of rows between A and B in either
\* direction and whose first_call/last_call are their earliest and latest
\* timestamps
C2_UnorderedAggregation ==
  lc_pc = "done" =>
    \A A \in Phones, B \in Phones :
      LET between ==
            SelectSeq(lc_call_data,
                      LAMBDA r : {r.caller, r.receiver} = {A, B})
          stamps == {between[i].timestamp : i \in 1..Len(between)}
      IN (A # B /\ between # <<>>) =>
           /\ SortedPair(A, B) \in DOMAIN graph.edges
           /\ LET e == graph.edges[SortedPair(A, B)]
              IN /\ e.call_count = Len(between)
                 /\ \A t \in stamps : DateOrd[e.first_call] <= DateOrd[t]
                 /\ \A t \in stamps : DateOrd[e.last_call] >= DateOrd[t]
                 /\ e.first_call \in stamps /\ e.last_call \in stamps

\* C3: no record is stored under call_data[A][A] and no connection is drawn
\* from A to A, for any phone A
C3_NoSelfLoop ==
  \A A \in Phones :
    /\ Records(call_data, A, A) = <<>>
    /\ <<A, A>> \notin DOMAIN connection_lines

\* C4: a pair has an entry in call_data only if at least one record is
\* stored for it (no entry with an empty list remains), and a connection is
\* drawn only for a pair that has a record
C4_EdgeIffRecord ==
  /\ \A A \in Phones, B \in Phones :
       HasIn(call_data, A, B) => call_data.map[A][B] # <<>>
  /\ \A k \in DOMAIN connection_lines :
       \E pr \in Orientations(k) : Records(call_data, pr[1], pr[2]) # <<>>

\* C5: every phone that is an outer or inner key of call_data with stored
\* records is a key of phone_nodes
C5_NodesExist ==
  \A A \in Phones, B \in Phones :
    Records(call_data, A, B) # <<>> =>
      A \in DOMAIN phone_nodes /\ B \in DOMAIN phone_nodes

\* C6: a confirmed delete_phone of A removes A from phone_nodes and
\* node_widgets, leaves no list under call_data[A][X] or call_data[X][A] and
\* no connection_lines key containing A, and leaves the nodes, positions and
\* records of everything not involving A unchanged
C6_CascadeDelete ==
  [][(last_event'.op = "delete_phone" /\ last_event'.result = "yes") =>
       LET A == selected_phone
       IN /\ A \notin DOMAIN phone_nodes'
          /\ A \notin node_widgets'
          /\ \A X \in Phones : ~HasIn(call_data', A, X) /\ ~HasIn(call_data', X, A)
          /\ \A k \in DOMAIN connection_lines' : A # k[1] /\ A # k[2]
          /\ DOMAIN phone_nodes' = DOMAIN phone_nodes \ {A}
          /\ \A p \in DOMAIN phone_nodes' : phone_nodes'[p] = phone_nodes[p]
          /\ \A p \in Phones \ {A}, q \in Phones \ {A} :
               Records(call_data', p, q) = Records(call_data, p, q)]_vars

\* C7: a confirmed delete_connection of the selected pair (A, B) removes
\* the records of the pair in both directions and its connection_lines
\* entry and leaves phone_nodes, the positions and the records and drawn
\* connections of every other pair unchanged; with no selection or a
\* declined confirmation nothing changes
C7_EdgeDelete ==
  [][last_event'.op = "delete_connection" =>
       IF last_event'.result = "yes"
       THEN LET A == selected_connection[1]
                B == selected_connection[2]
                key == SortedPair(A, B)
            IN /\ ~HasIn(call_data', A, B) /\ ~HasIn(call_data', B, A)
               /\ key \notin DOMAIN connection_lines'
               /\ phone_nodes' = phone_nodes
               /\ node_widgets' = node_widgets
               /\ \A p \in Phones, q \in Phones :
                    {p, q} # {A, B} =>
                      /\ HasIn(call_data', p, q) <=> HasIn(call_data, p, q)
                      /\ Records(call_data', p, q) = Records(call_data, p, q)
               /\ DOMAIN connection_lines' = DOMAIN connection_lines \ {key}
               /\ \A k \in DOMAIN connection_lines' :
                    connection_lines'[k] = connection_lines[k]
       ELSE UNCHANGED app]_vars

\* a connection with records was deleted while another pair kept its own
C7_Witness ==
  /\ last_event.op = "delete_connection"
  /\ last_event.result = "yes"
  /\ Records(call_data, last_event.key[1], last_event.key[2]) = <<>>
  /\ \E p \in Phones, q \in Phones : CallsOf(Records(call_data, p, q)) # <<>>
  /\ connection_lines # <<>>

\* C8: adding a note to a pair (complete_connection, edit_connection_label)
\* leaves the call records of every pair as they were, and saving an empty
\* note for a pair (A, B) that has a note leaves no 'Manual Note' record of
\* the pair in either direction and the call records of every pair as they
\* were
C8_NoteToggle ==
  [][(last_event'.op \in {"edit_connection_label", "on_right_click"}) =>
       /\ \A p \in Phones, q \in Phones :
            CallsOf(Records(call_data', p, q)) = CallsOf(Records(call_data, p, q))
       /\ (/\ last_event'.op = "edit_connection_label"
           /\ last_event'.initial # ""
           /\ last_event'.result = "") =>
            /\ NotesOf(Records(call_data', last_event'.key[1],
                                last_event'.key[2])) = <<>>
            /\ NotesOf(Records(call_data', last_event'.key[2],
                                last_event'.key[1])) = <<>>]_vars

\* the note "x" of a pair that also has a call was replaced by the empty
\* note: the call is still there, in both directions
C8_Witness ==
  /\ last_event.op = "edit_connection_label"
  /\ last_event.initial = "x"
  /\ last_event.result = ""
  /\ CallsOf(Records(call_data, last_event.key[1], last_event.key[2])) # <<>>
  /\ CallsOf(Records(call_data, last_event.key[2], last_event.key[1])) # <<>>

\* C9: the call count shown in the label of every drawn connection is the
\* number of records of the pair that are not manual notes
C9_CountExcludesNotes ==
  \A k \in DOMAIN connection_lines :
    \E pr \in Orientations(k) :
      connection_lines[k].total_calls =
        Len(CallsOf(Records(call_data, pr[1], pr[2])))

\* C10: the average duration shown in the label of every drawn connection
\* that has call records is the sum of their durations divided by their
\* number (shown as whole minutes and seconds); manual notes do not enter it
C10_AverageOverCalls ==
  \A k \in DOMAIN connection_lines :
    \E pr \in Orientations(k) :
      LET calls == CallsOf(Records(call_data, pr[1], pr[2]))
      IN calls # <<>> =>
           60 * connection_lines[k].avg_mins + connection_lines[k].avg_secs
             = SumDuration(calls) \div Len(calls)

\* C11: no stored call record has a negative duration
C11_NonNegativeDurations ==
  \A A \in Phones, B \in Phones :
    \A i \in 1..Len(Records(call_data, A, B)) :
      Records(call_data, A, B)[i].duration >= 0

\* a row with every required field present and a date and times that parse
WellFormedRow(row) ==
  /\ row.target_number # "" /\ row.from_to_number # ""
  /\ row.date \in {"2024-01-05", "2024-01-09"}
  /\ row.start_time \in {"00:00:00", "00:00:10", "00:00:30"}
  /\ row.end_time \in {"00:00:00", "00:00:10", "00:00:30"}

\* the number of times the rows of a file store a record under [A][B]
RECURSIVE StoredUnder(_, _, _)
StoredUnder(rows, A, B) ==
  IF rows = <<>> THEN 0
  ELSE LET r == Head(rows)
       IN (IF r.target_number = A /\ r.from_to_number = B THEN 1 ELSE 0)
          + (IF r.from_to_number = A /\ r.target_number = B THEN 1 ELSE 0)
          + StoredUnder(Tail(rows), A, B)

C13_ImportAtomic ==
  [][(last_event'.op = "import_cdr_csv" /\ last_event'.result = "error") =>
       UNCHANGED <<call_data, phone_nodes, node_widgets, connection_lines>>]_vars

\* C14: the new format is chosen iff the columns include Target Number,
\* Call Direction, From or To Number, Date and Start; otherwise the old
\* format iff caller and receiver are both present; otherwise
\* auto-detection, which fails iff there is no pair of a caller-like and a
\* receiver-like column; a chosen format leaves the caller, receiver and
\* timestamp columns available
C14_SchemaDetection ==
  schema.format # "none" =>
    LET columns == schema.columns
        new == {"Target Number", "Call Direction", "From or To Number",
                "Date", "Start"} \subseteq columns
        old == ~new /\ {"caller", "receiver"} \subseteq columns
        pair == \E c \in columns \cap CallerLike, r \in columns \cap ReceiverLike :
                  c # r
    IN /\ schema.format = "new" <=> new
       /\ schema.format = "old" <=> old
       /\ schema.format = "auto" <=> (~new /\ ~old)
       /\ schema.format = "auto" => (schema.error <=> ~pair)
       /\ schema.format \in {"new", "old"} => ~schema.error
       /\ ~schema.error =>
            {"caller", "receiver", "timestamp"} \subseteq schema.after

\* C15: the filter window is inclusive at both ends: a record is kept iff
\* its date lies in [date_from, date_to] and the minute of its time of day
\* lies in [time_from, time_to]; an unset bound imposes no constraint
C15_InclusiveWindow ==
  applied.done =>
    LET filters == applied.job.filters
        InWindow(row) ==
          /\ filters.date_from = "YYYY-MM-DD"
               \/ DateOrd[row.timestamp] >= DateOrd[filters.date_from]
          /\ filters.date_to = "YYYY-MM-DD"
               \/ DateOrd[row.timestamp] <= DateOrd[filters.date_to]
          /\ filters.time_from = "HH:MM"
               \/ ClockSeconds[row.time] \div 60
                    >= BoundSeconds[filters.time_from] \div 60
          /\ filters.time_to = "HH:MM"
               \/ ClockSeconds[row.time] \div 60
                    <= BoundSeconds[filters.time_to] \div 60
    IN applied.kept = SelectSeq(applied.job.data, InWindow)

\* the records of the unordered pair u among the records the window kept
PairCount(u) ==
  Cardinality({i \in 1..Len(applied.kept) :
                 {applied.kept[i].caller, applied.kept[i].receiver} = u})

\* the unordered pairs with at least min_calls records
FrequentPairs ==
  {u \in SUBSET Phones :
     u # {} /\ PairCount(u) >= applied.job.filters.min_calls}

\* C16: when no more than max_nodes phones survive the minimum-call step,
\* the edges are exactly the unordered pairs with at least min_calls records
\* in the filtered record set, call_count is that number of records, and
\* the nodes are exactly the endpoints of the edges
C16_MinimumCalls ==
  (applied.done
     /\ Cardinality(UNION FrequentPairs) <= applied.job.filters.max_nodes)
  => LET edges == applied.graph.edges
     IN /\ \A k \in DOMAIN edges : k = SortedPair(k[1], k[2])
        /\ {{k[1], k[2]} : k \in DOMAIN edges} = FrequentPairs
        /\ \A k \in DOMAIN edges :
             edges[k].call_count = PairCount({k[1], k[2]})
        /\ applied.graph.nodes = UNION FrequentPairs

\* three records, two of them between "1" and "2" in either direction and
\* one between "2" and "3", filtered with min_calls = 2
C16_Witness ==
  /\ applied.done
  /\ applied.job.filters.min_calls = 2
  /\ applied.job.filters.max_nodes = 2
  /\ Len(applied.kept) = 3
  /\ PairCount({"1", "2"}) = 2
  /\ PairCount({"2", "3"}) = 1
  /\ applied.kept[1].caller = "2" /\ applied.kept[1].receiver = "1"
  /\ applied.graph.nodes = {"1", "2"}
  /\ DOMAIN applied.graph.edges = {<<"1", "2">>}
  /\ applied.graph.edges[<<"1", "2">>].call_count = 2

\* the sum of the call counts of the surviving edges at phone p
IncidentCalls(p) ==
  LET at == {u \in FrequentPairs : p \in u}
      RECURSIVE Sum(_)
      Sum(S) == IF S = {} THEN 0
                ELSE LET u == CHOOSE u \in S : TRUE
                     IN PairCount(u) + Sum(S \ {u})
  IN Sum(at)

\* p ranks before q: more incident calls, or as many and the smaller id
RanksBefore(p, q) ==
  \/ IncidentCalls(p) > IncidentCalls(q)
  \/ IncidentCalls(p) = IncidentCalls(q) /\ Ord(p) < Ord(q)

\* C17: when more than max_nodes phones survive the minimum-call step, the
\* graph keeps exactly the max_nodes phones with the highest total incident
\* call count, ties broken by phone identifier ascending, and exactly the
\* surviving edges between kept phones
C17_NodeCapDeterministic ==
  (applied.done
     /\ Cardinality(UNION FrequentPairs) > applied.job.filters.max_nodes)
  => LET survivors == UNION FrequentPairs
         kept == {p \in survivors :
                    Cardinality({q \in survivors : RanksBefore(q, p)})
                      < applied.job.filters.max_nodes}
     IN /\ applied.graph.nodes = kept
        /\ {{k[1], k[2]} : k \in DOMAIN applied.graph.edges}
             = {u \in FrequentPairs : u \subseteq kept}

\* the phone is in the phone_numbers of some person of the registry
Owned(p) == \E id \in DOMAIN persons : p \in persons[id]

\* C18: with show_orphan_phones off every phone owned by no person, and
\* with show_persons off every person-owned phone, is absent from the
\* filtered graph together with every edge incident to it
C18_VisibilityRemovesNodes ==
  applied.done =>
    \A p \in Phones :
      (\/ ~applied.job.filters.show_orphan_phones /\ ~Owned(p)
       \/ ~applied.job.filters.show_persons /\ Owned(p))
      => /\ p \notin applied.graph.nodes
         /\ \A k \in DOMAIN applied.graph.edges : p # k[1] /\ p # k[2]

\* the records of the filtered graph: the kept records of its edges
ResultRecords ==
  LET OfEdge(row) == SortedPair(row.caller, row.receiver)
                       \in DOMAIN applied.graph.edges
  IN SelectSeq(applied.kept, OfEdge)

\* C19: filtering the records of filter(G, s) again with s yields the same
\* node set, edge set and edge statistics as filter(G, s)
C19_FilterIdempotent ==
  applied.done =>
    LET again == _worker_apply_filters(applied.job.filters, ResultRecords)
    IN /\ again.nodes = applied.graph.nodes
       /\ again.edges = applied.graph.edges

\* every result is the filter of the job's submitted filters and data
ResultsFromSnapshots ==
  /\ \A i \in 1..Len(result_queue) :
       result_queue[i].graph =
         _worker_apply_filters(result_queue[i].job.filters,
                               result_queue[i].job.data)
  /\ filtered_graph =
       _worker_apply_filters(filtered_from.filters, filtered_from.data)

\* a step that puts a result on the queue changes nothing of the source
WorkerFrame ==
  Len(result_queue') > Len(result_queue)
    => UNCHANGED <<lc_call_data, persons, graph, call_stats, current_filters>>

\* C20: a filter job reads only the copy of call_data and the filter
\* settings taken when it was submitted, so its result is unchanged by a
\* load or filter change while it is in flight, and the job never modifies
\* call_data, the persons registry or the source graph
C20_SnapshotJobs == []ResultsFromSnapshots /\ [][WorkerFrame]_vars

\* a job finished after the application got other data or filters, with a
\* result that differs from the filter of the data and filters of that time
C20_Witness ==
  \E i \in 1..Len(result_queue) :
    /\ result_queue[i].overtaken
    /\ result_queue[i].graph.edges # <<>>
    /\ result_queue[i].graph # _worker_apply_filters(current_filters, lc_call_data)
    /\ persons # <<>>

\* the most recent request: the filters and data of the last submission
LatestRequest == [filters |-> current_filters, data |-> lc_call_data]

\* a poll installs only the result of the most recent request
InstallsLatest ==
  Len(result_queue') < Len(result_queue) => filtered_from' = LatestRequest

\* with no job in flight and no result queued the graph shown is the
\* result of the most recent request
SettledOnLatest ==
  (jobs = <<>> /\ result_queue = <<>> /\ lc_call_data # <<>>)
    => filtered_graph = _worker_apply_filters(current_filters, lc_call_data)

\* C21: stale filter results are ignored: for every interleaving of worker
\* completions and polls, the result of a job that is not the most recent
\* request is never installed as filtered_graph, and once all jobs have
\* finished and all polls have run the graph shown is the result of the
\* most recent request
C21_StaleResultsIgnored == [][InstallsLatest]_vars /\ []SettledOnLatest

\* the phones a row of the file names
Mentioned(file) ==
  {file[i].target_number : i \in 1..Len(file)}
    \cup {file[i].from_to_number : i \in 1..Len(file)}

\* C22: an import leaves the x, y of every phone that existed before it
\* unchanged, so a phone placed by a drag keeps its position across a later
\* import whose rows mention it
C22_PositionsSurviveImport ==
  [][last_event'.op = "import_cdr_csv"
       => \A p \in DOMAIN phone_nodes :
            /\ p \in DOMAIN phone_nodes'
            /\ phone_nodes'[p] = phone_nodes[p]]_vars

\* an import has just named a phone that a drag had moved off the grid
C22_Witness ==
  /\ last_event.op = "import_cdr_csv"
  /\ last_event.result = "ok"
  /\ \E p \in placed \cap Mentioned(last_event.key) :
       /\ phone_nodes[p].x \notin {GridX(i) : i \in 0..2}
       /\ phone_nodes[p].y \notin {GridY(i) : i \in {0, 3}}

\* the canvas position of every widget is the logical position times zoom
RenderTracksLogical ==
  \A p \in DOMAIN widget_at :
    /\ p \in DOMAIN phone_nodes
    /\ widget_at[p].x = phone_nodes[p].x * last_zoom
    /\ widget_at[p].y = phone_nodes[p].y * last_zoom

\* a zoom step changes no PhoneNode
ZoomKeepsLogical ==
  (last_event'.op = "on_zoom" /\ zoom_var' # zoom_var)
    => phone_nodes' = phone_nodes

\* a drag step moves the dragged phone only, by the canvas delta over zoom
DragMovesSelected ==
  (last_event'.op = "on_canvas_drag"
     /\ zoom_debounce_timer' = zoom_debounce_timer)
    => /\ \A p \in DOMAIN phone_nodes \ {selected_phone} :
            p \in DOMAIN phone_nodes' /\ phone_nodes'[p] = phone_nodes[p]
       /\ \E delta \in CanvasDeltas :
            /\ (phone_nodes'[selected_phone].x - phone_nodes[selected_phone].x)
                 * last_zoom = delta[1] * 100
            /\ (phone_nodes'[selected_phone].y - phone_nodes[selected_phone].y)
                 * last_zoom = delta[2] * 100

\* C26: after any sequence of zoom, wheel, click, drag and release events,
\* zooming changes no PhoneNode's x or y, a drag changes only the dragged
\* phone's x, y (by the canvas delta divided by the zoom), and the canvas
\* position of every widget is its logical (x, y) multiplied by last_zoom
C26_RenderTracksLogical ==
  /\ []RenderTracksLogical
  /\ [][ZoomKeepsLogical]_vars
  /\ [][DragMovesSelected]_vars

\* a phone dragged while zoomed out, seen after the zoom was set back
C26_Witness ==
  /\ last_zoom = 100
  /\ last_event.op = "on_zoom"
  /\ \E p \in placed \cap DOMAIN widget_at :
       /\ phone_nodes[p].x = GridX(0) + 190
       /\ widget_at[p].x = (GridX(0) + 190) * 100

\* C23: when a filter result that still contains node A is applied, A's
\* position afterwards is the position it had before the change
C23_PositionsSurviveFilter ==
  [][Len(result_queue') < Len(result_queue)
       => \A A \in DOMAIN lc_pos \cap filtered_graph'.nodes :
            A \in DOMAIN lc_pos' /\ lc_pos'[A] = lc_pos[A]]_vars

\* a step of on_scroll or of a pan drag: zoom or pan changes, not by a reset
ZoomPanStep ==
  /\ filtered_graph' = filtered_graph
  /\ <<zoom_factor', pan_offset'>> # <<zoom_factor, pan_offset>>
  /\ <<zoom_factor', pan_offset'>> # <<1000, <<0, 0>>>>

\* C24: zoom and pan never change the stored position of a node; the
\* transform is applied at render time only
C24_ZoomPanKeepLogical == [][ZoomPanStep => lc_pos' = lc_pos]_vars

\* the persons whose phone_numbers hold the phone
Owners(phone) == {id \in DOMAIN persons : phone \in persons[id]}

\* every phone has at most one owner, whom both lookups find
OwnershipUnambiguous ==
  \A phone \in Phones :
    /\ Cardinality(Owners(phone)) <= 1
    /\ Owners(phone) # {} => FirstOwner(phone) = LastOwner(phone)

\* a step that removes a person removes no phone from the data or a graph
DeleteKeepsPhones ==
  (DOMAIN persons' # DOMAIN persons /\ persons_made' = persons_made)
    => UNCHANGED <<lc_call_data, graph, filtered_graph>>

\* C25: after any sequence of add_person, assign_phone, remove_phone and
\* delete_person done through the dialog every phone number belongs to at
\* most one person, so the first and the last owner found are the same
\* person; delete_person removes the association only
C25_OwnershipUnambiguous ==
  []OwnershipUnambiguous /\ [][DeleteKeepsPhones]_vars

\* the selected person was deleted; the other person owns phone "2", and
\* phone "1" is listed as available and still a node of the graph
C25_Witness ==
  /\ persons_made = 2
  /\ DOMAIN persons = {"person_2"}
  /\ persons["person_2"] = {"2"}
  /\ "1" \in available_listbox
  /\ current_person_id = "person_1"
  /\ "1" \in graph.nodes

\* C27: each node of the graph the filter worker produces is an endpoint of
\* one of its edges, the graph has at most max_nodes nodes, and both
\* endpoints of every edge are nodes
C27_NodesHaveEdges ==
  applied.done =>
    /\ \A n \in applied.graph.nodes :
         \E k \in DOMAIN applied.graph.edges : n = k[1] \/ n = k[2]
    /\ Cardinality(applied.graph.nodes) <= applied.job.filters.max_nodes
    /\ \A k \in DOMAIN applied.graph.edges :
         k[1] \in applied.graph.nodes /\ k[2] \in applied.graph.nodes

\* C29: connecting holds exactly while connection_start is set, the phone a
\* connection starts from is a key of phone_nodes, and the Escape key or a
\* right-click on empty canvas leaves connection mode with connection_start
\* and temp_line cleared
ConnectionMode ==
  /\ connecting <=> connection_start # None
  /\ connecting => connection_start \in DOMAIN phone_nodes

LeavesConnectionMode ==
  (\/ on_escape_key
   \/ \E result \in DialogResults : on_right_click(None, result))
    => (~connecting' /\ connection_start' = None /\ ~temp_line')

C29_ConnectionMode == []ConnectionMode /\ [][LeavesConnectionMode]_vars


\* C28: filter requests, results and polls are matched one to one: every
\* worker that ends puts exactly one result, every scheduled poll stands for
\* one request not yet shown, and once the workers have finished the queue
\* empties, no _check_filter_results timer remains and the progress bar has
\* been stopped
PollsMatchRequests == poll_timers = Len(jobs) + Len(result_queue)

WorkerPutsOneResult ==
  Len(jobs') < Len(jobs) => Len(result_queue') = Len(result_queue) + 1

PollsSettled == result_queue = <<>> /\ poll_timers = 0 /\ ~progress_bar

C28_RequestsMatchResults ==
  /\ []PollsMatchRequests
  /\ [][WorkerPutsOneResult]_vars
  /\ (jobs = <<>>) ~> (jobs # <<>> \/ PollsSettled)

\* C30: a color change made during a drag is shown after the release: the
\* callback the release schedules calls refresh_phone_widget with the phone
\* that was pending, every scheduled callback is called, and the release
\* leaves _pending_color_refresh cleared
RefreshesPendingPhone ==
  last_refresh # NoRefresh => last_refresh.invoked = last_refresh.scheduled

ReleaseClearsPending ==
  (dragging /\ ~dragging') => _pending_color_refresh' = None

C30_DeferredColorRefresh ==
  /\ []RefreshesPendingPhone
  /\ [][ReleaseClearsPending]_vars
  /\ (refresh_timers # <<>>) ~> (last_refresh # NoRefresh)

====
